---- MODULE Spec2Model ----
(***************************************************************************)
(* A model of the KoboToolbox project dashboard: the paginated collection  *)
(* fetchers and the asset normalisation of src/kobo_api_functions.py, and  *)
(* the session handlers and the tabular filter of src/main.py.             *)
(*                                                                         *)
(* JSON values are modelled as strings: Absent stands for a key that the   *)
(* object does not hold, Null for JSON null (Python None), "True" and      *)
(* "False" for the booleans.  Integer fields use NoneInt and AbsentInt.    *)
(***************************************************************************)
EXTENDS Integers, Sequences, FiniteSets, TLC

VARIABLES
    \* st.session_state (main.py 23-37)
    available_project_views,
    project_views_fetched,
    loaded_assets_from_views,
    assets_loaded,
    filtered_projects_df,
    filters_applied,
    all_loaded_assets_df,
    \* the widget values read by the last run of the Project Browser tab, and
    \* the exception that ended the last script run ("none" when it completed)
    widgets,
    ui_error,
    \* SpecNorm: the raw asset handed to the two normalisers and their outcomes
    raw,
    normDirect,
    normView,
    normDone,
    \* the running handler and the fetcher it called: position, locals, and
    \* the value the fetcher returned
    pc,
    next_url,
    acc,
    total,
    first_count,
    include_surveys,
    selected,
    view_idx,
    view_fetched,
    ret,
    \* what went over the wire during the running fetch, and what the
    \* progress sink was told
    requests,
    served,
    progress,
    \* the requests the server will still answer and the asset and submission
    \* records it will still serve (a project views listing holds at most
    \* MaxViews entries)
    reqLeft,
    recLeft,
    \* the export loop (main.py 834-847) and the st.cache_data memo
    export_queue,
    zip_files,
    cache,
    \* st.session_state of the Form Analyser tab (main.py 40-55)
    xml_form_details,
    all_xml_column_names,
    xml_forms_processed,
    keyword_match_results,
    analyser_keywords_input,
    analyser_fuzzy_threshold,
    analyser_fuzzy_method,
    \* the scoring function the selected method stands for, the detail
    \* responses served to the last analysis, the calls of the scoring
    \* function made by the last search, and what each search was run on and
    \* stored
    current_fuzzy_function,
    detail_served,
    scored,
    search_log,
    \* the flags of the session a running fetch handler found when it was
    \* entered
    flags_before

sessionVars ==
    <<available_project_views, project_views_fetched, loaded_assets_from_views,
      assets_loaded, filtered_projects_df, filters_applied, all_loaded_assets_df>>

tabVars == <<widgets, ui_error>>

normVars == <<raw, normDirect, normView, normDone>>

fetchVars ==
    <<pc, next_url, acc, total, first_count, include_surveys, selected, view_idx,
      view_fetched, ret, requests, served, progress, reqLeft, recLeft,
      export_queue, zip_files, cache>>

analyserVars ==
    <<xml_form_details, all_xml_column_names, xml_forms_processed,
      keyword_match_results, analyser_keywords_input, analyser_fuzzy_threshold,
      analyser_fuzzy_method>>

searchVars == <<current_fuzzy_function, detail_served, scored, search_log>>

vars ==
    <<sessionVars, tabVars, normVars, fetchVars, analyserVars, searchVars,
      flags_before>>

---------------------------------------------------------------------------
(* JSON / Python values *)

Absent == "<absent>"
Null == "<null>"
NoneInt == 0 - 1
AbsentInt == 0 - 2

\* dict.get(key) and dict.get(key, default) on a string-valued field
Get(v, default) == IF v = Absent THEN default ELSE v

\* dict.get(key, default) on an integer-valued field
GetInt(v, default) == IF v = AbsentInt THEN default ELSE v

\* Python truth value of a value read with dict.get
Truthy(v) == v \notin {Null, "False", "", "0"}

SeqsUpTo(S, lo, hi) == UNION {[1..n -> S] : n \in lo..hi}

IsInjective(s) == \A i, j \in 1..Len(s) : s[i] = s[j] => i = j

---------------------------------------------------------------------------
(* Raw asset records (the entries of `results` of the asset endpoints) *)

\* an element of settings.country: an object with optional label and value,
\* or something that is not an object
CountryObj(label, value) == [isdict |-> TRUE, label |-> label, value |-> value]
CountryScalar == [isdict |-> FALSE, label |-> Absent, value |-> Absent]

\* settings: kind "absent" (no key), "null" (JSON null) or "obj";
\* country_kind "absent", "null", "list" or "str" (a non-list truthy value)
Settings(kind, country_kind, country, sector) ==
    [kind |-> kind, country_kind |-> country_kind, country |-> country,
     sector |-> sector]

NoSettings == Settings("absent", "absent", <<>>, Absent)
NullSettings == Settings("null", "absent", <<>>, Absent)

\* settings = asset.get("settings", {}); country_list = settings.get("country", [])
\* The value of country_list as a sequence; Null and a non-list are kept apart
\* by CountryKind.
CountryKind(asset) ==
    IF asset.settings.kind = "absent" THEN "list"
    ELSE IF asset.settings.country_kind = "absent" THEN "list"
    ELSE asset.settings.country_kind

CountryList(asset) ==
    IF asset.settings.kind = "absent" THEN <<>>
    ELSE IF asset.settings.country_kind = "list" THEN asset.settings.country
    ELSE <<>>

\* `country_list and isinstance(country_list, list) and len(country_list) > 0`
CountryUsable(asset) ==
    /\ CountryKind(asset) = "list"
    /\ Len(CountryList(asset)) > 0

\* country_list[0].get("label", "") if ... else ""
CountryLabel(asset) ==
    IF CountryUsable(asset) THEN Get(CountryList(asset)[1].label, "") ELSE ""

\* country_list[0].get("value", "") if ... else ""
CountryCode(asset) ==
    IF CountryUsable(asset) THEN Get(CountryList(asset)[1].value, "") ELSE ""

\* settings.get("sector")
SectorData(asset) ==
    IF asset.settings.kind = "absent" THEN Null ELSE Get(asset.settings.sector, Null)

\* (a slip: settings read with asset["settings"], a KeyError when it is missing)
NormalizeRaisesNoDefault(asset) ==
    \/ asset.settings.kind \in {"null", "absent"}
    \/ /\ CountryUsable(asset)
       /\ ~CountryList(asset)[1].isdict

\* The statements of the normalisation that raise (AttributeError): .get on a
\* settings value that is None, and .get on a first country that is no object.
NormalizeRaises(asset) ==
    \/ asset.settings.kind = "null"
    \/ /\ CountryUsable(asset)
       /\ ~CountryList(asset)[1].isdict

\* (a slip: the archive flag tested before the deployment status)
StatusArchivedFirst(asset) ==
    IF Truthy(Get(asset.is_archived, Null)) THEN "Archived"
    ELSE IF asset.deployment_status = "deployed" THEN "Deployed"
    ELSE "Draft"

\* status of fetch_assets_for_project_views: elif asset.get("is_archived")
StatusLabelView(asset) ==
    IF asset.deployment_status = "deployed" THEN "Deployed"
    ELSE IF Truthy(Get(asset.is_archived, Null)) THEN "Archived"
    ELSE "Draft"

\* status of fetch_all_assets_metadata: elif asset.get("is_archived", False)
StatusLabelDirect(asset) ==
    IF asset.deployment_status = "deployed" THEN "Deployed"
    ELSE IF Truthy(Get(asset.is_archived, "False")) THEN "Archived"
    ELSE "Draft"

\* next((pv["View Name"] for pv in available_project_views
\*       if pv["View UID"] == view_uid), "Unknown")
RECURSIVE SourceViewName(_, _)
SourceViewName(views, view_uid) ==
    IF views = <<>> THEN "Unknown"
    ELSE IF Head(views).ViewUID = view_uid THEN Head(views).ViewName
    ELSE SourceViewName(Tail(views), view_uid)

AssetRow(asset, status, view_uid, view_name) ==
    [Name            |-> Get(asset.name, Null),
     UID             |-> Get(asset.uid, Null),
     SubmissionCount |-> GetInt(asset.deployment__submission_count, 0),
     DateCreated     |-> Get(asset.date_created, Null),
     DateModified    |-> Get(asset.date_modified, Null),
     CountryLabel    |-> CountryLabel(asset),
     CountryCode     |-> CountryCode(asset),
     SourceViewUID   |-> view_uid,
     SourceViewName  |-> view_name,
     IsDeployed      |-> Get(asset.is_deployed, "False"),
     IsArchived      |-> Get(asset.is_archived, "False"),
     Status          |-> status,
     OwnerUsername   |-> Get(asset.owner__username, Null),
     Sector          |-> SectorData(asset)]

\* the dict appended by fetch_assets_for_project_views for one asset
NormalizeViewAsset(asset, view_uid, views) ==
    AssetRow(asset, StatusLabelView(asset), view_uid, SourceViewName(views, view_uid))

\* the dict appended by fetch_all_assets_metadata for one asset
NormalizeDirectAsset(asset) ==
    AssetRow(asset, StatusLabelDirect(asset), "N/A", "Direct Assets API")

\* outcome of normalising one record: the row, or the exception
Outcome(raises, row) ==
    IF raises THEN [raised |-> TRUE, row |-> <<>>]
    ELSE [raised |-> FALSE, row |-> <<row>>]

---------------------------------------------------------------------------
(* Sample records: the raw assets the modelled server can serve *)

BaseAsset ==
    [asset_type |-> "survey", name |-> Absent, uid |-> Absent,
     deployment__submission_count |-> AbsentInt,
     date_created |-> Absent, date_modified |-> Absent,
     deployment_status |-> Absent, is_archived |-> Absent,
     is_deployed |-> Absent, owner__username |-> Absent,
     settings |-> NoSettings]

\* e1: a deployed survey with every field; e2: a draft with the optional
\* fields missing; e3: an archived survey with a null submission count and an
\* object-valued sector; e5: a dated draft without submissions, country or
\* sector; e4: a question block, no survey
SampleAsset(e) ==
    CASE e = "e1" ->
           [BaseAsset EXCEPT
              !.name = "Wa", !.uid = "u1", !.deployment__submission_count = 2,
              !.date_created = "2024-01-02T23:59Z",
              !.date_modified = "2024-01-03T00:00Z",
              !.deployment_status = "deployed", !.is_deployed = "True",
              !.is_archived = "False", !.owner__username = "bob",
              !.settings = Settings("obj", "list",
                                    <<CountryObj("Kenya", "KE")>>, "Health")]
      [] e = "e2" ->
           [BaseAsset EXCEPT !.uid = "u2", !.deployment_status = "draft"]
      [] e = "e3" ->
           [BaseAsset EXCEPT
              !.name = "aw", !.uid = "u3", !.deployment__submission_count = NoneInt,
              !.date_created = "2024-01-01T12:00Z",
              !.deployment_status = "archived", !.is_archived = "True",
              !.settings = Settings("obj", "absent", <<>>, "{'name': 'WASH'}")]
      [] e = "e5" ->
           [BaseAsset EXCEPT
              !.name = "wash", !.uid = "u5", !.deployment__submission_count = 0,
              !.date_created = "2024-01-01T12:00Z", !.is_archived = "False"]
      [] OTHER ->
           [BaseAsset EXCEPT
              !.asset_type = "question", !.uid = "u4", !.name = "Block"]

---------------------------------------------------------------------------
(* Data frames: the rows, and whether the frame has the asset columns      *)
(* (pd.DataFrame() has no column and no row).                              *)

DataFrame(rows) == [hascols |-> TRUE, rows |-> rows]
EmptyFrame == [hascols |-> FALSE, rows |-> <<>>]

\* DataFrame.empty
IsEmpty(df) == df.rows = <<>>

RowSet(df) == {df.rows[i] : i \in 1..Len(df.rows)}

\* a pandas Timestamp: the calendar day and the time within the day; NaT
Timestamp(day, tod) == [day |-> day, tod |-> tod]
NaT == [day |-> NoneInt, tod |-> 0]
IsNaT(ts) == ts.day = NoneInt

\* pd.to_datetime(column, errors='coerce').dt.tz_localize(None), on the date
\* strings of the sample records; None and unparsable text give NaT
ToDatetime(v) ==
    CASE v = "2024-01-01T12:00Z" -> Timestamp(1, 1)
      [] v = "2024-01-02T23:59Z" -> Timestamp(2, 2)
      [] v = "2024-01-03T00:00Z" -> Timestamp(3, 0)
      [] OTHER -> NaT

CoerceRow(row) ==
    [row EXCEPT !.DateCreated = ToDatetime(@), !.DateModified = ToDatetime(@)]

\* (a slip: keep='last', the last row of every UID)
RECURSIVE DropDuplicatesLast(_, _)
DropDuplicatesLast(rows, seen) ==
    IF rows = <<>> THEN <<>>
    ELSE IF \E i \in 2..Len(rows) : rows[i].UID = Head(rows).UID
    THEN DropDuplicatesLast(Tail(rows), seen)
    ELSE <<Head(rows)>> \o DropDuplicatesLast(Tail(rows), seen)

RECURSIVE DropDuplicatesSeen(_, _)
DropDuplicatesSeen(rows, seen) ==
    IF rows = <<>> THEN <<>>
    ELSE IF Head(rows).UID \in seen THEN DropDuplicatesSeen(Tail(rows), seen)
    ELSE <<Head(rows)>> \o DropDuplicatesSeen(Tail(rows), seen \cup {Head(rows).UID})

\* (a slip: the frame built without drop_duplicates)
KeepDuplicates(rows) == rows

\* DataFrame.drop_duplicates(subset=['UID']): the first row of every UID
DropDuplicates(rows) == DropDuplicatesSeen(rows, {})

\* df_temp of the two load handlers: the fetched rows without duplicate UIDs,
\* the two date columns coerced
AssetTable(rows) ==
    LET kept == DropDuplicates(rows)
    IN  DataFrame([i \in 1..Len(kept) |-> CoerceRow(kept[i])])

---------------------------------------------------------------------------
(* Text: the strings of the model as character sequences *)

Chars(s) ==
    CASE s = "wa" -> <<"w", "a">>
      [] s = "aw" -> <<"a", "w">>
      [] s = "a"  -> <<"a">>
      [] s = "x"  -> <<"x">>
      [] s = "block" -> <<"b", "l", "o", "c", "k">>
      [] s = "wash" -> <<"w", "a", "s", "h">>
      [] OTHER -> <<s>>

\* str.lower()
Lower(s) ==
    CASE s = "Wa" -> "wa"
      [] s = "WA" -> "wa"
      [] s = "Block" -> "block"
      [] s = "Age" -> "age"
      [] s = "A" -> "a"
      [] OTHER -> s

\* str.strip()
Strip(s) ==
    CASE s = " a " -> "a"
      [] s = " " -> ""
      [] s = "   " -> ""
      [] s = "A " -> "A"
      [] OTHER -> s

IsSubstring(needle, hay) ==
    \E i \in 0..(Len(hay) - Len(needle)) : SubSeq(hay, i + 1, i + Len(needle)) = needle

\* re.search(re.escape(word), name, re.IGNORECASE) for one keyword
ContainsWord(name, word) == IsSubstring(Chars(Lower(word)), Chars(Lower(name)))

\* [kw.strip() for kw in text.split(',') if kw.strip()], the text given as the
\* sequence of its comma-separated segments
ParseKeywords(segments) ==
    LET stripped == [i \in 1..Len(segments) |-> Strip(segments[i])]
    IN  SelectSeq(stripped, LAMBDA k : k # "")

---------------------------------------------------------------------------
(* The Project Browser tab: widget options and the interactive filter *)

SectorDicts == {"{}", "{'name': 'WASH'}", "{'label': 'Food'}", "{'id': 3}"}

\* dict.get on a sector object
SectorField(d, key) ==
    CASE d = "{'name': 'WASH'}" /\ key = "name" -> "WASH"
      [] d = "{'label': 'Food'}" /\ key = "label" -> "Food"
      [] OTHER -> Null

get_sector_display_name(sector_item) ==
    IF sector_item \in SectorDicts /\ sector_item # "{}"
    THEN IF Truthy(SectorField(sector_item, "name")) THEN SectorField(sector_item, "name")
         ELSE IF Truthy(SectorField(sector_item, "label")) THEN SectorField(sector_item, "label")
         ELSE sector_item
    ELSE IF sector_item \notin SectorDicts /\ sector_item # Null /\ Strip(sector_item) # ""
    THEN sector_item
    ELSE Null

\* sorted(df["Country Label"].dropna().unique())
CountryOptions(df) == {r.CountryLabel : r \in RowSet(df)}

\* status_options_for_selection
StatusOptions(df) ==
    IF df.hascols /\ ~IsEmpty(df) THEN {r.Status : r \in RowSet(df)} ELSE {}

\* loaded_sectors_options
SectorOptions(df) ==
    IF df.hascols
    THEN {get_sector_display_name(r.Sector) : r \in RowSet(df)} \ {Null}
    ELSE {}

ValidDays(df) == {r.DateCreated.day : r \in {x \in RowSet(df) : ~IsNaT(x.DateCreated)}}

SetMin(S) == CHOOSE x \in S : \A y \in S : x <= y
SetMax(S) == CHOOSE x \in S : \A y \in S : x >= y

\* min_date_val and max_date_val: the first and last valid creation day, or
\* today when no row has a valid creation date
MinDateVal(df, today) == IF ValidDays(df) = {} THEN today ELSE SetMin(ValidDays(df))
MaxDateVal(df, today) == IF ValidDays(df) = {} THEN today ELSE SetMax(ValidDays(df))

SubmissionCounts(df) ==
    {r.SubmissionCount : r \in {x \in RowSet(df) : x.SubmissionCount # NoneInt}}

\* int(df["Submission Count"].max()) raises when every count is None (NaN)
NumberInputRaises(df) ==
    /\ df.hascols /\ ~IsEmpty(df)
    /\ SubmissionCounts(df) = {}

\* max_value of the Minimum Submissions input
MaxSubmissionValue(df) ==
    IF df.hascols /\ ~IsEmpty(df) /\ SubmissionCounts(df) # {}
    THEN SetMax(SubmissionCounts(df))
    ELSE 0

\* (a slip: the end of the range compared with the timestamp, so that a row
\* created during the last day falls outside)
FilterDateExclusive(df, w) ==
    [df EXCEPT !.rows =
        SelectSeq(@, LAMBDA r : /\ ~IsNaT(r.DateCreated)
                                /\ r.DateCreated.day >= w.date_start
                                /\ \/ r.DateCreated.day < w.date_end
                                   \/ r.DateCreated.day = w.date_end /\ r.DateCreated.tod = 0)]

\* Filter 1: Date Range (main.py 318-322)
FilterDate(df, w) ==
    [df EXCEPT !.rows =
        SelectSeq(@, LAMBDA r : /\ ~IsNaT(r.DateCreated)
                                /\ r.DateCreated.day >= w.date_start
                                /\ r.DateCreated.day <= w.date_end)]

\* Filter 2: Project Name Keyword Search (main.py 325-331)
FilterName(df, w) ==
    LET words == ParseKeywords(w.name_keywords_input)
    IN  IF words = <<>> THEN df
        ELSE [df EXCEPT !.rows =
                SelectSeq(@, LAMBDA r :
                    /\ r.Name # Null
                    /\ \E i \in 1..Len(words) : ContainsWord(r.Name, words[i]))]

\* (a slip: the membership test applied to an empty selection as well)
FilterCountryAlways(df, w) ==
    [df EXCEPT !.rows = SelectSeq(@, LAMBDA r : r.CountryLabel \in w.countries)]

\* Filter 3: Country Label (main.py 334-338)
FilterCountry(df, w) ==
    IF w.countries = {} THEN df
    ELSE [df EXCEPT !.rows = SelectSeq(@, LAMBDA r : r.CountryLabel \in w.countries)]

\* (a slip: an empty status selection read as no restriction)
FilterStatusOptional(df, w) ==
    IF w.statuses = {} \/ ~df.hascols THEN df
    ELSE [df EXCEPT !.rows = SelectSeq(@, LAMBDA r : r.Status \in w.statuses)]

\* Filter 4: Project Status (main.py 341-348)
FilterStatus(df, w) ==
    IF w.statuses # {}
    THEN IF df.hascols
         THEN [df EXCEPT !.rows = SelectSeq(@, LAMBDA r : r.Status \in w.statuses)]
         ELSE df
    ELSE IF df.hascols THEN EmptyFrame ELSE df

\* Filter 5: Sector (main.py 392-399)
FilterSector(df, w) ==
    IF w.sectors = {} \/ ~df.hascols THEN df
    ELSE [df EXCEPT !.rows =
            SelectSeq(@, LAMBDA r : get_sector_display_name(r.Sector) \in w.sectors)]

\* Filter 6: Minimum Submission Count (main.py 402-405); a None count
\* compares false
FilterMinSubmissions(df, w) ==
    IF ~df.hascols THEN df
    ELSE [df EXCEPT !.rows =
            SelectSeq(@, LAMBDA r : /\ r.SubmissionCount # NoneInt
                                    /\ r.SubmissionCount >= w.min_submission_count)]

\* the columns of the table the load handlers build (the keys of the dicts
\* the asset fetchers append, kobo_api_functions.py 127-143)
AssetColumns ==
    {"Name", "UID", "Submission Count", "Date Created", "Date Modified",
     "Country Label", "Country Code", "Source View UID", "Source View Name",
     "Is Deployed", "Is Archived", "Status", "Owner Username", "Sector"}

\* col in df.columns
HasColumn(df, col) == df.hascols /\ col \in AssetColumns

\* Operational Purpose, Collects PII (main.py 378-383): the selections are
\* empty when the working table has no such column (352-363)
FilterOperationalPurpose(df, w) ==
    IF HasColumn(df, "Operational Purpose") /\ w.operational_purposes # {}
    THEN [df EXCEPT !.rows =
            SelectSeq(@, LAMBDA r : r.OperationalPurpose \in w.operational_purposes)]
    ELSE df

FilterCollectsPII(df, w) ==
    IF HasColumn(df, "Collects PII") /\ w.collects_pii # {}
    THEN [df EXCEPT !.rows = SelectSeq(@, LAMBDA r : r.CollectsPII \in w.collects_pii)]
    ELSE df

\* Description keywords (main.py 386-389)
FilterDescription(df, w) ==
    LET words == ParseKeywords(w.description_keywords_input)
    IN  IF HasColumn(df, "Description") /\ words # <<>>
        THEN [df EXCEPT !.rows =
                SelectSeq(@, LAMBDA r :
                    /\ r.Description # Null
                    /\ \E i \in 1..Len(words) : ContainsWord(r.Description, words[i]))]
        ELSE df

\* main.py 314-407: the frame after each predicate, from the copy of the
\* working table (1) to the frame that is stored (10)
FilterStages(df, w) ==
    LET f1 == df
        f2 == IF IsEmpty(df) THEN f1 ELSE FilterDate(f1, w)
        f3 == IF IsEmpty(df) THEN f2 ELSE FilterName(f2, w)
        f4 == IF IsEmpty(df) THEN f3 ELSE FilterCountry(f3, w)
        f5 == IF IsEmpty(df) THEN f4 ELSE FilterStatus(f4, w)
        f6 == FilterOperationalPurpose(f5, w)
        f7 == FilterCollectsPII(f6, w)
        f8 == FilterDescription(f7, w)
        f9 == FilterSector(f8, w)
    IN  <<f1, f2, f3, f4, f5, f6, f7, f8, f9, FilterMinSubmissions(f9, w)>>

\* (a slip: the stored frame taken from the last predicate alone)
ApplyLastFilterOnly(df, w) == FilterMinSubmissions(df, w)

ApplyFilters(df, w) == FilterStages(df, w)[10]

\* a predicate indexes column col of frame df when its guard holds
ColumnRead(df, col, guard) ==
    IF guard THEN {[column |-> col, present |-> HasColumn(df, col)]} ELSE {}

\* (a slip: the minimum submissions predicate without its column test)
MinSubmissionReadsUnguarded(df, w) == ColumnRead(df, "Submission Count", TRUE)

\* if "Submission Count" in filtered_df.columns (main.py 402)
MinSubmissionReads(df, w) ==
    ColumnRead(df, "Submission Count", HasColumn(df, "Submission Count"))

\* the columns the predicates index during one run, each with whether the
\* frame it is indexed on holds it (main.py 316-403)
PredicateReads(df, w) ==
    LET f == FilterStages(df, w)
        block == ~IsEmpty(df)
    IN  ColumnRead(f[1], "Date Created", block /\ HasColumn(f[1], "Date Created"))
        \cup ColumnRead(f[2], "Name",
                        block /\ ParseKeywords(w.name_keywords_input) # <<>>
                              /\ HasColumn(f[2], "Name"))
        \cup ColumnRead(f[3], "Country Label",
                        block /\ w.countries # {} /\ HasColumn(f[3], "Country Label"))
        \cup ColumnRead(f[4], "Status",
                        block /\ w.statuses # {} /\ HasColumn(f[4], "Status"))
        \cup ColumnRead(f[5], "Operational Purpose",
                        HasColumn(f[5], "Operational Purpose")
                        /\ w.operational_purposes # {})
        \cup ColumnRead(f[6], "Collects PII",
                        HasColumn(f[6], "Collects PII") /\ w.collects_pii # {})
        \cup ColumnRead(f[7], "Description",
                        HasColumn(f[7], "Description")
                        /\ ParseKeywords(w.description_keywords_input) # <<>>)
        \cup ColumnRead(f[8], "Sector", w.sectors # {} /\ HasColumn(f[8], "Sector"))
        \cup MinSubmissionReads(f[9], w)

\* indexing a column the frame does not hold raises KeyError
PredicateRaises(df, w) == \E r \in PredicateReads(df, w) : ~r.present

\* One run of the Project Browser tab (main.py 230-419) over the working
\* table: the new filtered table, and the exception that ends the run, if any.
\* The number input raises before anything is filtered; the statistics read
\* the Submission Count column of the filtered table after it is stored.
BrowserRun(df, before, w) ==
    IF NumberInputRaises(df)
    THEN [filtered |-> before, error |-> "ValueError"]
    ELSE IF PredicateRaises(df, w)
    THEN [filtered |-> before, error |-> "PredicateKeyError"]
    ELSE LET f == ApplyFilters(df, w)
         IN  [filtered |-> f, error |-> IF f.hascols THEN "none" ELSE "KeyError"]

MaxDay == 2
Days == 1..MaxDay

KeywordInputs == {<<"">>, <<"WA">>, <<" a ", " ">>, <<"x", "aw">>}

DescriptionInputs == {<<"">>, <<"a">>}

\* the values the widgets of the tab can hold for a working table
WidgetValues(df) ==
    [name_keywords_input : KeywordInputs,
     countries : SUBSET CountryOptions(df),
     statuses : SUBSET StatusOptions(df),
     sectors : SUBSET SectorOptions(df),
     date_start : Days,
     date_end : Days,
     min_submission_count : 0..MaxSubmissionValue(df),
     operational_purposes : {{}},
     collects_pii : {{}},
     description_keywords_input : DescriptionInputs]

\* the values of widgets nobody has touched (main.py 237-309)
DefaultWidgets(df, today) ==
    [name_keywords_input |-> <<"">>,
     countries |-> {},
     statuses |-> StatusOptions(df),
     sectors |-> {},
     date_start |-> MinDateVal(df, today),
     date_end |-> MaxDateVal(df, today),
     min_submission_count |-> 0,
     operational_purposes |-> {},
     collects_pii |-> {},
     description_keywords_input |-> <<"">>]

NoWidgets == DefaultWidgets(EmptyFrame, 1)

---------------------------------------------------------------------------
(* The server: what one GET of a collection page can answer *)

MaxRequests == 3
MaxRecords == 2

\* the entries a page of `results` can hold: "bad" is an entry that is no
\* object (null, a scalar), "e1" a survey, "e4" a question block
FetchEntries == {"bad", "e1", "e4"}

IsDict(e) == e # "bad"

Url(endpoint, id, page) == [endpoint |-> endpoint, id |-> id, page |-> page]

\* a response: ok is FALSE when the request raises a RequestException
\* (timeout, bad status, undecodable body); next is Null on the last page
Response(ok, count, results, next) ==
    [ok |-> ok, count |-> count, results |-> results, next |-> next]

FailedResponse == Response(FALSE, AbsentInt, <<>>, Absent)

\* The answers to a GET.  The first page of a collection may carry any count
\* or none; a later page repeats the count of the first.  `more` says whether
\* the bounds of the model leave room for a further page.
Responses(entries, count_seen, records_left, more) ==
    {FailedResponse} \cup
    {Response(TRUE, c, rs, n) :
        c \in (IF count_seen = NoneInt THEN {AbsentInt} \cup 0..MaxRecords
               ELSE {count_seen}),
        rs \in SeqsUpTo(entries, 0, records_left),
        n \in (IF more THEN {Null, "next"} ELSE {Null})}

\* the entries a page of the project views listing can hold, and the size of
\* the largest listing
ViewEntries == {"bad", "e1", "e2"}
MaxViews == Cardinality(ViewEntries) - 1

\* the project view object the views endpoint serves for an entry
SampleView(e) ==
    CASE e = "e1" -> [name |-> "North", uid |-> "v1", url |-> "url-v1"]
      [] e = "e2" -> [name |-> "South", uid |-> "v2", url |-> "url-v2"]
      [] OTHER    -> [name |-> "East", uid |-> "v3", url |-> Absent]

\* the columns json_normalize gives the submission served for an entry
SubmissionColumns(e) ==
    CASE e = "e1" -> {"_id", "group.q1"}
      [] e = "e2" -> {"_id"}
      [] e = "e4" -> {"_id", "group.q1", "group.q2"}
      [] OTHER    -> {}

---------------------------------------------------------------------------
(* Return values of the fetchers *)

ListValue(rows) == [kind |-> "list", rows |-> rows]
FrameValue(rows) == [kind |-> "frame", rows |-> rows]
\* (a slip: a failure answered with the empty table)
EmptyTableOnFailure == [kind |-> "frame", rows |-> <<>>]

NoneValue == [kind |-> "none", rows |-> <<>>]
Raised == [kind |-> "raised", rows |-> <<>>]
NoValue == [kind |-> "pending", rows |-> <<>>]

---------------------------------------------------------------------------
(* One page of each fetcher *)

\* the dicts appended for one page by fetch_all_project_views_metadata
ViewRows(results) ==
    LET dicts == SelectSeq(results, IsDict)
    IN  [i \in 1..Len(dicts) |->
            [ViewName |-> Get(SampleView(dicts[i]).name, Null),
             ViewUID  |-> Get(SampleView(dicts[i]).uid, Null),
             URL      |-> Get(SampleView(dicts[i]).url, Null)]]

\* the entries of a page that reach the normalisation: objects, and only
\* surveys when surveys_only is set
KeptAssets(results, surveys_only) ==
    SelectSeq(results, LAMBDA e :
        /\ IsDict(e)
        /\ ~(surveys_only /\ SampleAsset(e).asset_type # "survey"))

PageRaises(results, surveys_only) ==
    \E i \in 1..Len(KeptAssets(results, surveys_only)) :
        NormalizeRaises(SampleAsset(KeptAssets(results, surveys_only)[i]))

\* the dicts appended for one page by fetch_all_assets_metadata
DirectRowsOfPage(results, surveys_only) ==
    LET kept == KeptAssets(results, surveys_only)
    IN  [i \in 1..Len(kept) |-> NormalizeDirectAsset(SampleAsset(kept[i]))]

\* the dicts appended for one page by fetch_assets_for_project_views
ViewAssetRowsOfPage(results, surveys_only, view_uid, views) ==
    LET kept == KeptAssets(results, surveys_only)
    IN  [i \in 1..Len(kept) |-> NormalizeViewAsset(SampleAsset(kept[i]), view_uid, views)]

\* pd.json_normalize(all_submissions): one row per entry; an entry that is
\* no object gives a row without a value
SubmissionFrame(entries) ==
    FrameValue([i \in 1..Len(entries) |->
                   [entry |-> entries[i], columns |-> SubmissionColumns(entries[i])]])

\* What json_normalize can do with the accumulated entries: the frame; with
\* an entry that is no object, depending on the pandas version, the frame
\* with an empty row or an exception, which the fetcher turns into None.
NormalizedSubmissions(entries) ==
    IF \A i \in 1..Len(entries) : IsDict(entries[i])
    THEN {SubmissionFrame(entries)}
    ELSE {SubmissionFrame(entries), NoneValue}

\* st.cache_data before any call
NoCache == [u \in {} |-> NoValue]

\* the Form Analyser tab before any analysis (main.py 40-55); the comma
\* separated keyword input is held as its segments
AnalyserIdle ==
    /\ xml_form_details = <<>>
    /\ all_xml_column_names = <<>>
    /\ xml_forms_processed = FALSE
    /\ keyword_match_results = EmptyFrame
    /\ analyser_keywords_input = <<"">>
    /\ analyser_fuzzy_threshold = 80
    /\ analyser_fuzzy_method = "Token Set Ratio (fuzz.token_set_ratio)"

\* nothing analysed or searched yet
SearchIdle ==
    /\ current_fuzzy_function = <<>>
    /\ detail_served = <<>>
    /\ scored = <<>>
    /\ search_log = <<>>

\* no handler is running
FetcherIdle ==
    /\ pc = "idle"
    /\ next_url = 0
    /\ acc = <<>>
    /\ total = NoneInt
    /\ first_count = NoneInt
    /\ include_surveys = TRUE
    /\ selected = <<>>
    /\ view_idx = 1
    /\ view_fetched = 0
    /\ ret = NoValue
    /\ requests = <<>>
    /\ served = <<>>
    /\ progress = <<>>
    /\ export_queue = <<>>
    /\ zip_files = <<>>
    /\ cache = NoCache
    /\ flags_before = <<>>

\* no fetcher is running and the whole budget of requests and records is left
FetchIdle ==
    /\ FetcherIdle
    /\ reqLeft = MaxRequests
    /\ recLeft = MaxRecords

---------------------------------------------------------------------------
(* SpecNorm: the normalisers applied to every raw asset of a bounded set *)

MaxCountries == 2

CountryEntries ==
    {CountryObj("Kenya", "KE"), CountryObj(Absent, "ML"), CountryScalar}

CountryLists ==
    UNION {[1..n -> CountryEntries] : n \in 0..MaxCountries}

SettingsValues ==
    {NoSettings, NullSettings}
    \cup {Settings("obj", ck, <<>>, s) :
            ck \in {"absent", "null", "str"}, s \in {Absent, "Health"}}
    \cup {Settings("obj", "list", c, s) :
            c \in CountryLists, s \in {Absent, "Health"}}

RawAssets ==
    [asset_type : {Absent, "survey", "question"},
     name : {Absent, "Water"},
     uid : {Absent, "u1"},
     deployment__submission_count : {AbsentInt, NoneInt, 7},
     date_created : {Absent, "2024-01-02T23:59Z"},
     date_modified : {Absent},
     deployment_status : {Absent, Null, "deployed", "draft"},
     is_archived : {Absent, Null, "False", "True", "1"},
     is_deployed : {Absent, "True"},
     owner__username : {Absent, "bob"},
     settings : SettingsValues]

\* the view the per-view normaliser is run for in SpecNorm
NormViews == <<[ViewName |-> "North", ViewUID |-> "v1", URL |-> "url-v1"]>>

NormNone == [raised |-> FALSE, row |-> <<>>]

SessionIdle ==
    /\ available_project_views = <<>>
    /\ project_views_fetched = FALSE
    /\ loaded_assets_from_views = <<>>
    /\ assets_loaded = FALSE
    /\ filtered_projects_df = EmptyFrame
    /\ filters_applied = FALSE
    /\ all_loaded_assets_df = EmptyFrame
    /\ widgets = NoWidgets
    /\ ui_error = "not_run"

InitNorm ==
    /\ SessionIdle
    /\ raw \in RawAssets
    /\ normDirect = NormNone
    /\ normView = NormNone
    /\ normDone = FALSE
    /\ FetchIdle
    /\ AnalyserIdle
    /\ SearchIdle

NormalizeStep ==
    /\ ~normDone
    /\ normDirect' = Outcome(NormalizeRaises(raw), NormalizeDirectAsset(raw))
    /\ normView' = Outcome(NormalizeRaises(raw), NormalizeViewAsset(raw, "v1", NormViews))
    /\ normDone' = TRUE
    /\ UNCHANGED <<raw, sessionVars, tabVars, fetchVars>>
    /\ UNCHANGED <<analyserVars, searchVars, flags_before>>

NextNorm == NormalizeStep

SpecNorm == InitNorm /\ [][NextNorm]_vars

---------------------------------------------------------------------------
(* SpecFilter: the Project Browser tab re-run with every combination of    *)
(* widget values over the working tables a direct fetch can leave behind   *)

MaxRows == 2

FilterEntries == {"e1", "e2", "e3", "e5"}

DirectRows(entries) ==
    [i \in 1..Len(entries) |-> NormalizeDirectAsset(SampleAsset(entries[i]))]

NormIdle ==
    /\ raw = BaseAsset
    /\ normDirect = NormNone
    /\ normView = NormNone
    /\ normDone = FALSE

\* the working tables of the model hold the sample records in ascending or
\* in descending order of their rank
EntryRank(e) ==
    CASE e = "e1" -> 1
      [] e = "e2" -> 2
      [] e = "e3" -> 3
      [] OTHER    -> 4

Listed(e) ==
    \/ \A i \in 1..(Len(e) - 1) : EntryRank(e[i]) < EntryRank(e[i + 1])
    \/ \A i \in 1..(Len(e) - 1) : EntryRank(e[i]) > EntryRank(e[i + 1])

InitFilter ==
    /\ \E entries \in {e \in SeqsUpTo(FilterEntries, 1, MaxRows) : Listed(e)} :
          /\ loaded_assets_from_views = DirectRows(entries)
          /\ all_loaded_assets_df = AssetTable(DirectRows(entries))
          /\ filtered_projects_df = AssetTable(DirectRows(entries))
    /\ available_project_views = <<>>
    /\ project_views_fetched = FALSE
    /\ assets_loaded = TRUE
    /\ filters_applied = TRUE
    /\ widgets = NoWidgets
    /\ ui_error = "not_run"
    /\ NormIdle
    /\ FetchIdle
    /\ AnalyserIdle
    /\ SearchIdle

\* a script run caused by a change of a filter widget: the Project Browser
\* tab (main.py 229-445) with the widget values w
ProjectBrowserRerun ==
    /\ assets_loaded
    /\ \E w \in WidgetValues(all_loaded_assets_df) :
          LET run == BrowserRun(all_loaded_assets_df, filtered_projects_df, w)
          IN  /\ widgets' = w
              /\ filtered_projects_df' = run.filtered
              /\ ui_error' = run.error
              /\ filters_applied' = (run.error \notin {"ValueError", "PredicateKeyError"}
                                  \/ filters_applied)
    /\ UNCHANGED <<available_project_views, project_views_fetched,
                   loaded_assets_from_views, assets_loaded, all_loaded_assets_df>>
    /\ UNCHANGED <<normVars, fetchVars>>
    /\ UNCHANGED <<analyserVars, searchVars, flags_before>>

\* One run per behaviour: a run reads the working table and the widget
\* values only, and overwrites what the run before it stored.
FirstBrowserRun ==
    /\ ui_error = "not_run"
    /\ ProjectBrowserRerun

NextFilter == FirstBrowserRun

SpecFilter == InitFilter /\ [][NextFilter]_vars

---------------------------------------------------------------------------
(* Spec: the session, its handlers and the fetchers they call, one GET per *)
(* step                                                                    *)

\* a selection leaves a request for each selected view
MaxSelected == MaxRequests - 1

\* the locals of a fetcher at its first statement
StartFetch(p, inc, sel) ==
    /\ pc' = p
    /\ next_url' = 1
    /\ acc' = <<>>
    /\ total' = NoneInt
    /\ first_count' = NoneInt
    /\ include_surveys' = inc
    /\ selected' = sel
    /\ view_idx' = 1
    /\ view_fetched' = 0
    /\ ret' = NoValue
    /\ requests' = <<>>
    /\ served' = <<>>
    /\ progress' = <<>>

\* the fetcher is over: its locals are gone
EndFetch ==
    /\ next_url' = 0
    /\ acc' = <<>>
    /\ total' = NoneInt
    /\ first_count' = NoneInt
    /\ include_surveys' = TRUE
    /\ selected' = <<>>
    /\ view_idx' = 1
    /\ view_fetched' = 0
    /\ ret' = NoValue
    /\ requests' = <<>>
    /\ served' = <<>>
    /\ progress' = <<>>

\* the handler is over
EndHandler ==
    /\ pc' = "idle"
    /\ EndFetch

\* requests.get(url): the request and the answer are logged
Serve(url, resp) ==
    /\ requests' = Append(requests, url)
    /\ served' = Append(served, resp)
    /\ reqLeft' = reqLeft - 1
    /\ recLeft' = IF url.endpoint = "project-views" THEN recLeft
                  ELSE recLeft - Len(resp.results)

\* the number of entries served during the running fetch
RECURSIVE ServedEntries(_)
ServedEntries(n) ==
    IF n = 0 THEN 0 ELSE ServedEntries(n - 1) + Len(served[n].results)

\* the fetcher returns value
Return(p, value) ==
    /\ pc' = p
    /\ ret' = value
    /\ next_url' = 0

\* (a slip: the total reported as the items fetched)
ReportTotalAsFetched(id, fetched, count) == [coll |-> id, fetched |-> count, total |-> count]

\* what the progress sink is told after a page: st_text.text and pb.progress
Report(id, fetched, count) == [coll |-> id, fetched |-> fetched, total |-> count]

\* the handlers that test the credentials, each with the st.error it shows
\* when the token or the server URL is empty
CredentialErrors ==
    {"credentials: fetch_views_button_pv", "credentials: load_assets_button_pv",
     "credentials: fetch_all_assets_button", "credentials: analyze_forms_button"}

\* (a slip: the session reset placed before the test of the credentials)
MissingCredentialsAfterReset(message) ==
    /\ ui_error' = message
    /\ loaded_assets_from_views' = <<>>
    /\ assets_loaded' = FALSE
    /\ filtered_projects_df' = EmptyFrame
    /\ filters_applied' = FALSE
    /\ all_loaded_assets_df' = EmptyFrame
    /\ xml_form_details' = <<>>
    /\ xml_forms_processed' = FALSE
    /\ UNCHANGED <<available_project_views, project_views_fetched, widgets,
                   normVars, fetchVars, all_xml_column_names,
                   keyword_match_results, analyser_keywords_input,
                   analyser_fuzzy_threshold, analyser_fuzzy_method, searchVars,
                   flags_before>>

\* if not api_token or not server_url: st.error(...) (main.py 90-93, 136-139,
\* 179-182, 602-603)
MissingCredentials(message) ==
    /\ ui_error' = message
    /\ UNCHANGED <<sessionVars, widgets, normVars, fetchVars, analyserVars,
                   searchVars, flags_before>>

\* (a slip: the reset of Analyze Forms, main.py 606-609, repeated in a fetch
\* handler)
ResetAnalyserState ==
    /\ xml_forms_processed' = FALSE
    /\ xml_form_details' = <<>>
    /\ all_xml_column_names' = <<>>
    /\ keyword_match_results' = EmptyFrame
    /\ UNCHANGED <<analyser_keywords_input, analyser_fuzzy_threshold,
                   analyser_fuzzy_method>>

\* the fetch handlers assign no key of the Form Analyser tab ("DO NOT reset
\* form analyser states here", main.py 103, 147, 192)
KeepAnalyserState == UNCHANGED analyserVars

SessionFlags == <<project_views_fetched, assets_loaded, filters_applied>>

\* a fetch handler passed its tests: the script run has shown no error yet,
\* and the flags it found are remembered until the next fetch handler starts
HandlerEntered ==
    /\ ui_error' = "none"
    /\ flags_before' = SessionFlags

\* (a slip: the flags cleared, the tables left for the fetch to extend)
ResetFlagsOnly ==
    /\ assets_loaded' = FALSE
    /\ filters_applied' = FALSE
    /\ UNCHANGED <<loaded_assets_from_views, filtered_projects_df,
                   all_loaded_assets_df>>

\* main.py 98-102, 142-146, 187-191
ResetAssetState ==
    /\ loaded_assets_from_views' = <<>>
    /\ assets_loaded' = FALSE
    /\ filtered_projects_df' = EmptyFrame
    /\ filters_applied' = FALSE
    /\ all_loaded_assets_df' = EmptyFrame

\* "Fetch Available Project Views" (main.py 89-105), up to the call of the fetcher
FetchViewsClick ==
    /\ pc = "idle"
    /\ reqLeft > 0
    /\ \E creds \in BOOLEAN :
          IF ~creds THEN MissingCredentials("credentials: fetch_views_button_pv")
          ELSE /\ project_views_fetched' = FALSE
               /\ available_project_views' = <<>>
               /\ ResetAssetState
               /\ StartFetch("views", TRUE, <<>>)
               /\ HandlerEntered
               /\ KeepAnalyserState
               /\ UNCHANGED <<widgets, normVars, reqLeft, recLeft, export_queue,
                              zip_files, cache, searchVars>>

\* one iteration of the loop of fetch_all_project_views_metadata
\* (kobo_api_functions.py 32-69)
ViewsPage ==
    /\ pc = "views"
    /\ \E resp \in Responses(ViewEntries, first_count,
                             MaxViews - ServedEntries(Len(served)), reqLeft > 1) :
          /\ Serve(Url("project-views", "", next_url), resp)
          /\ IF ~resp.ok
             THEN /\ Return("views_ret", ListValue(<<>>))
                  /\ UNCHANGED <<acc, total, first_count, progress>>
             ELSE LET count == IF total = NoneInt THEN GetInt(resp.count, 0) ELSE total
                      all == acc \o ViewRows(resp.results)
                  IN  IF total = NoneInt /\ count = 0
                      THEN /\ Return("views_ret", ListValue(<<>>))
                           /\ total' = count
                           /\ first_count' = resp.count
                           /\ UNCHANGED <<acc, progress>>
                      ELSE /\ acc' = all
                           /\ total' = count
                           /\ first_count' = resp.count
                           /\ progress' = Append(progress, Report("", Len(all), count))
                           /\ IF resp.next = "next"
                              THEN /\ next_url' = next_url + 1
                                   /\ UNCHANGED <<pc, ret>>
                              ELSE Return("views_ret", ListValue(all))
    /\ UNCHANGED <<sessionVars, tabVars, normVars, include_surveys, selected,
                   view_idx, view_fetched, export_queue, zip_files, cache>>
    /\ UNCHANGED <<analyserVars, searchVars, flags_before>>

\* main.py 106-113
FetchViewsFinish ==
    /\ pc = "views_ret"
    /\ available_project_views' = ret.rows
    /\ project_views_fetched' = (ret.rows # <<>>)
    /\ ui_error' = "none"
    /\ EndHandler
    /\ UNCHANGED <<loaded_assets_from_views, assets_loaded, filtered_projects_df,
                   filters_applied, all_loaded_assets_df, widgets, normVars,
                   reqLeft, recLeft, export_queue, zip_files, cache>>
    /\ UNCHANGED flags_before
    /\ UNCHANGED <<analyserVars, searchVars>>

\* the options of the "Select Project View(s)" multiselect (main.py 117-127)
ViewOptions ==
    IF project_views_fetched /\ available_project_views # <<>>
    THEN {available_project_views[i].ViewUID : i \in 1..Len(available_project_views)}
    ELSE {}

Selections(n) == {s \in SeqsUpTo(ViewOptions, 0, n) : IsInjective(s)}

Min(a, b) == IF a <= b THEN a ELSE b

\* "Load Assets from Selected Project View(s)" (main.py 131-149)
LoadAssetsClick ==
    /\ pc = "idle"
    /\ reqLeft > 0
    /\ \E creds \in BOOLEAN, inc \in BOOLEAN,
          sel \in Selections(Min(MaxSelected, reqLeft)) :
          IF sel = <<>> THEN UNCHANGED vars
          ELSE IF ~creds THEN MissingCredentials("credentials: load_assets_button_pv")
          ELSE /\ ResetAssetState
               /\ StartFetch("pv", inc, sel)
               /\ HandlerEntered
               /\ KeepAnalyserState
               /\ UNCHANGED <<available_project_views, project_views_fetched,
                              widgets, normVars, reqLeft, recLeft, export_queue,
                              zip_files, cache, searchVars>>

\* the for loop of fetch_assets_for_project_views moves to the next view, or
\* the function returns (kobo_api_functions.py 88-93, 157)
NextView(all) ==
    /\ acc' = all
    /\ IF view_idx = Len(selected)
       THEN /\ Return("pv_ret", ListValue(all))
            /\ UNCHANGED <<view_idx, view_fetched, total, first_count>>
       ELSE /\ view_idx' = view_idx + 1
            /\ next_url' = 1
            /\ view_fetched' = 0
            /\ total' = NoneInt
            /\ first_count' = NoneInt
            /\ UNCHANGED <<pc, ret>>

\* one iteration of the while loop of fetch_assets_for_project_views
\* (kobo_api_functions.py 95-155)
ViewAssetsPage ==
    /\ pc = "pv"
    /\ LET view_uid == selected[view_idx]
       IN  \E resp \in Responses(FetchEntries, first_count, recLeft,
                                 reqLeft - 1 > Len(selected) - view_idx) :
              /\ Serve(Url("project-view-assets", view_uid, next_url), resp)
              /\ IF ~resp.ok
                 THEN /\ NextView(acc)
                      /\ UNCHANGED progress
                 ELSE IF PageRaises(resp.results, include_surveys)
                 THEN /\ Return("pv_ret", Raised)
                      /\ UNCHANGED <<acc, total, first_count, progress, view_idx,
                                     view_fetched>>
                 ELSE LET count == IF total = NoneInt THEN GetInt(resp.count, 0)
                                   ELSE total
                          all == acc \o ViewAssetRowsOfPage(resp.results, include_surveys,
                                                           view_uid, available_project_views)
                          fetched == view_fetched + Len(resp.results)
                      IN  /\ progress' = Append(progress, Report(view_uid, fetched, count))
                          /\ IF resp.next = "next"
                             THEN /\ acc' = all
                                  /\ total' = count
                                  /\ first_count' = resp.count
                                  /\ view_fetched' = fetched
                                  /\ next_url' = next_url + 1
                                  /\ UNCHANGED <<pc, ret, view_idx>>
                             ELSE NextView(all)
    /\ UNCHANGED <<sessionVars, tabVars, normVars, include_surveys, selected,
                   export_queue, zip_files, cache>>
    /\ UNCHANGED <<analyserVars, searchVars, flags_before>>

\* datetime.today() (main.py 291, 296) is read only when no row has a valid
\* creation date; otherwise its value plays no part in the run
TodayRead(df) == IF ValidDays(df) = {} THEN Days ELSE {MaxDay}

\* (a slip: the flag set before the test of the fetched list)
StoreLoadedAssetsFlagFirst(fetched) ==
    IF fetched # <<>>
    THEN LET df_temp == AssetTable(fetched)
             w == DefaultWidgets(df_temp, MaxDay)
             run == BrowserRun(df_temp, df_temp, w)
         IN  /\ assets_loaded' = TRUE
             /\ all_loaded_assets_df' = df_temp
             /\ filtered_projects_df' = run.filtered
             /\ filters_applied' = TRUE
             /\ widgets' = w
             /\ ui_error' = run.error
    ELSE /\ ui_error' = "none"
         /\ assets_loaded' = TRUE
         /\ UNCHANGED <<all_loaded_assets_df, filtered_projects_df,
                        filters_applied, widgets>>

\* The rest of a load handler once the fetcher has returned `fetched`
\* (main.py 158-171, 202-216), followed in the same script run by the Project
\* Browser tab with untouched widgets.
StoreLoadedAssets(fetched) ==
    IF fetched # <<>>
    THEN \E today \in TodayRead(AssetTable(fetched)) :
            LET df_temp == AssetTable(fetched)
                w == DefaultWidgets(df_temp, today)
                run == BrowserRun(df_temp, df_temp, w)
            IN  /\ assets_loaded' = TRUE
                /\ all_loaded_assets_df' = df_temp
                /\ filtered_projects_df' = run.filtered
                /\ filters_applied' = TRUE
                /\ widgets' = w
                /\ ui_error' = run.error
    ELSE /\ ui_error' = "none"
         /\ UNCHANGED <<assets_loaded, all_loaded_assets_df, filtered_projects_df,
                        filters_applied, widgets>>

\* an exception that is no RequestException leaves the fetcher and the
\* handler: the script run ends where the reset left the session
HandlerRaises ==
    /\ ui_error' = "AttributeError"
    /\ UNCHANGED <<sessionVars, widgets>>

\* main.py 150-171
LoadAssetsFinish ==
    /\ pc = "pv_ret"
    /\ IF ret.kind = "raised" THEN HandlerRaises
       ELSE /\ loaded_assets_from_views' = ret.rows
            /\ StoreLoadedAssets(ret.rows)
            /\ UNCHANGED <<available_project_views, project_views_fetched>>
    /\ EndHandler
    /\ UNCHANGED <<normVars, reqLeft, recLeft, export_queue, zip_files, cache>>
    /\ UNCHANGED flags_before
    /\ UNCHANGED <<analyserVars, searchVars>>

\* "Fetch All Assets (Direct)" (main.py 178-194)
FetchAllClick ==
    /\ pc = "idle"
    /\ reqLeft > 0
    /\ \E creds \in BOOLEAN, inc \in BOOLEAN :
          IF ~creds THEN MissingCredentials("credentials: fetch_all_assets_button")
          ELSE /\ project_views_fetched' = FALSE
               /\ available_project_views' = <<>>
               /\ ResetAssetState
               /\ StartFetch("direct", inc, <<>>)
               /\ HandlerEntered
               /\ KeepAnalyserState
               /\ UNCHANGED <<widgets, normVars, reqLeft, recLeft, export_queue,
                              zip_files, cache, searchVars>>

\* one iteration of the loop of fetch_all_assets_metadata
\* (kobo_api_functions.py 175-241)
AllAssetsPage ==
    /\ pc = "direct"
    /\ \E resp \in Responses(FetchEntries, first_count, recLeft, reqLeft > 1) :
          /\ Serve(Url("assets", "", next_url), resp)
          /\ IF ~resp.ok
             THEN /\ Return("direct_ret", ListValue(<<>>))
                  /\ UNCHANGED <<acc, total, first_count, progress>>
             ELSE LET count == IF total = NoneInt THEN GetInt(resp.count, 0) ELSE total
                      all == acc \o DirectRowsOfPage(resp.results, include_surveys)
                  IN  IF total = NoneInt /\ count = 0
                      THEN /\ Return("direct_ret", ListValue(<<>>))
                           /\ total' = count
                           /\ first_count' = resp.count
                           /\ UNCHANGED <<acc, progress>>
                      ELSE IF PageRaises(resp.results, include_surveys)
                      THEN /\ Return("direct_ret", Raised)
                           /\ total' = count
                           /\ first_count' = resp.count
                           /\ UNCHANGED <<acc, progress>>
                      ELSE /\ acc' = all
                           /\ total' = count
                           /\ first_count' = resp.count
                           /\ progress' = Append(progress, Report("", Len(all), count))
                           /\ IF resp.next = "next"
                              THEN /\ next_url' = next_url + 1
                                   /\ UNCHANGED <<pc, ret>>
                              ELSE Return("direct_ret", ListValue(all))
    /\ UNCHANGED <<sessionVars, tabVars, normVars, include_surveys, selected,
                   view_idx, view_fetched, export_queue, zip_files, cache>>
    /\ UNCHANGED <<analyserVars, searchVars, flags_before>>

\* main.py 195-216
FetchAllFinish ==
    /\ pc = "direct_ret"
    /\ IF ret.kind = "raised" THEN HandlerRaises
       ELSE /\ loaded_assets_from_views' =
                  (IF ret.rows # <<>> THEN ret.rows ELSE loaded_assets_from_views)
            /\ StoreLoadedAssets(ret.rows)
            /\ UNCHANGED <<available_project_views, project_views_fetched>>
    /\ EndHandler
    /\ UNCHANGED <<normVars, reqLeft, recLeft, export_queue, zip_files, cache>>
    /\ UNCHANGED flags_before
    /\ UNCHANGED <<analyserVars, searchVars>>

\* (a slip: the memo never consulted)
NeverMemoized(uid) == FALSE

\* st.cache_data holds a value for the arguments of the call; the token and
\* the server URL are those of the session, so the uid is the key
\* (kobo_api_functions.py 324)
Memoized(uid) == uid \in DOMAIN cache

\* (a slip: a failure value is not kept)
MemoizeSuccessOnly(uid, value) ==
    IF value.kind = "none" THEN cache
    ELSE [u \in DOMAIN cache \cup {uid} |-> IF u = uid THEN value ELSE cache[u]]

\* the memo after the call for uid returned value: st.cache_data stores
\* whatever the function returns, None included
Memoize(uid, value) ==
    [u \in DOMAIN cache \cup {uid} |-> IF u = uid THEN value ELSE cache[u]]

\* "Download All Displayed JSON Submissions (ZIP)" (main.py 740-744, 779-780,
\* 826-833): the tab is reached when the Project Browser tab of the same run
\* has not raised
ExportClick ==
    /\ pc = "idle"
    /\ assets_loaded
    /\ ~IsEmpty(filtered_projects_df)
    /\ ~NumberInputRaises(all_loaded_assets_df)
    /\ pc' = "export"
    /\ export_queue' = [i \in 1..Len(filtered_projects_df.rows) |->
                          [uid |-> filtered_projects_df.rows[i].UID,
                           name |-> filtered_projects_df.rows[i].Name]]
    /\ zip_files' = <<>>
    /\ UNCHANGED <<sessionVars, tabVars, normVars, next_url, acc, total, first_count,
                   include_surveys, selected, view_idx, view_fetched, ret, requests,
                   served, progress, reqLeft, recLeft, cache>>
    /\ UNCHANGED <<analyserVars, searchVars, flags_before>>

\* the next asset of the export loop (main.py 834-841): the name is cleaned
\* with str.replace, which raises on a name that is None; the fetch is served
\* from the cache when the asset was fetched before
SubmissionsStart ==
    /\ pc = "export"
    /\ export_queue # <<>>
    /\ LET item == Head(export_queue)
       IN  IF item.name = Null
           THEN /\ ui_error' = "AttributeError"
                /\ EndHandler
                /\ export_queue' = <<>>
                /\ UNCHANGED <<sessionVars, widgets, normVars, reqLeft, recLeft,
                               zip_files, cache>>
           ELSE IF Memoized(item.uid)
           THEN /\ pc' = "subs_ret"
                /\ ret' = cache[item.uid]
                /\ UNCHANGED <<sessionVars, tabVars, normVars, next_url, acc, total,
                               first_count, include_surveys, selected, view_idx,
                               view_fetched, requests, served, progress, reqLeft,
                               recLeft, export_queue, zip_files, cache>>
           ELSE /\ reqLeft > 0
                /\ StartFetch("subs", TRUE, <<>>)
                /\ UNCHANGED <<sessionVars, tabVars, normVars, reqLeft, recLeft,
                               export_queue, zip_files, cache>>
    /\ UNCHANGED <<analyserVars, searchVars, flags_before>>

\* one iteration of the loop of fetch_submissions_data_from_v2_json
\* (kobo_api_functions.py 338-373)
SubmissionsPage ==
    /\ pc = "subs"
    /\ \E resp \in Responses(FetchEntries, first_count, recLeft, reqLeft > 1) :
          /\ Serve(Url("asset-data", Head(export_queue).uid, next_url), resp)
          /\ IF ~resp.ok
             THEN /\ Return("subs_ret", NoneValue)
                  /\ UNCHANGED <<acc, total, first_count>>
             ELSE LET count == IF total = NoneInt THEN GetInt(resp.count, 0) ELSE total
                      all == acc \o resp.results
                  IN  IF total = NoneInt /\ count = 0
                      THEN /\ Return("subs_ret", FrameValue(<<>>))
                           /\ total' = count
                           /\ first_count' = resp.count
                           /\ UNCHANGED acc
                      ELSE /\ acc' = all
                           /\ total' = count
                           /\ first_count' = resp.count
                           /\ IF resp.next = "next"
                              THEN /\ next_url' = next_url + 1
                                   /\ UNCHANGED <<pc, ret>>
                              ELSE IF all = <<>>
                              THEN Return("subs_ret", FrameValue(<<>>))
                              ELSE \E value \in NormalizedSubmissions(all) :
                                      Return("subs_ret", value)
    /\ UNCHANGED <<sessionVars, tabVars, normVars, include_surveys, selected,
                   view_idx, view_fetched, progress, export_queue, zip_files, cache>>
    /\ UNCHANGED <<analyserVars, searchVars, flags_before>>

\* the value is memoized (kobo_api_functions.py 324) and the export loop goes
\* on (main.py 843-847)
SubmissionsReturn ==
    /\ pc = "subs_ret"
    /\ LET uid == Head(export_queue).uid
       IN  /\ cache' = Memoize(uid, ret)
           /\ zip_files' = IF ret.kind = "frame" /\ ret.rows # <<>>
                           THEN Append(zip_files, uid) ELSE zip_files
    /\ export_queue' = Tail(export_queue)
    /\ EndFetch
    /\ pc' = "export"
    /\ UNCHANGED <<sessionVars, tabVars, normVars, reqLeft, recLeft>>
    /\ UNCHANGED <<analyserVars, searchVars, flags_before>>

\* the export loop is over (main.py 849-858)
ExportDone ==
    /\ pc = "export"
    /\ export_queue = <<>>
    /\ pc' = "idle"
    /\ zip_files' = <<>>
    /\ UNCHANGED <<sessionVars, tabVars, normVars, next_url, acc, total, first_count,
                   include_surveys, selected, view_idx, view_fetched, ret, requests,
                   served, progress, reqLeft, recLeft, export_queue, cache>>
    /\ UNCHANGED <<analyserVars, searchVars, flags_before>>

\* "Clear App Cache" (main.py 219-222)
ClearCache ==
    /\ pc = "idle"
    /\ cache # NoCache
    /\ cache' = NoCache
    /\ UNCHANGED <<sessionVars, tabVars, normVars, next_url, acc, total, first_count,
                   include_surveys, selected, view_idx, view_fetched, ret, requests,
                   served, progress, reqLeft, recLeft, export_queue, zip_files, pc>>
    /\ UNCHANGED <<analyserVars, searchVars, flags_before>>

Init ==
    /\ SessionIdle
    /\ NormIdle
    /\ FetchIdle
    /\ AnalyserIdle
    /\ SearchIdle

Next ==
    \/ FetchViewsClick
    \/ ViewsPage
    \/ FetchViewsFinish
    \/ LoadAssetsClick
    \/ ViewAssetsPage
    \/ LoadAssetsFinish
    \/ FetchAllClick
    \/ AllAssetsPage
    \/ FetchAllFinish
    \/ ExportClick
    \/ SubmissionsStart
    \/ SubmissionsPage
    \/ SubmissionsReturn
    \/ ExportDone
    \/ ClearCache

Spec == Init /\ [][Next]_vars

---------------------------------------------------------------------------
(* SpecSearch: the keyword search of the Form Analyser tab, run on the     *)
(* form definitions an analysis left in the session                        *)

MaxSearches == 2

\* the schema terms of the analysed forms, in the order sorted() gives them
TermOrder == <<"", "Age", "q1", "text">>

\* sorted(list(S)) for a set S of terms
Sorted(S) == SelectSeq(TermOrder, LAMBDA t : t \in S)

\* one entry of xml_form_details (kobo_api_functions.py 312-316)
FormDefinition(form_name, uid, columns) ==
    [FormName |-> form_name, UID |-> uid, Columns |-> columns]

\* search_keywords (main.py 639)
SearchKeywords(segments) ==
    LET kws == ParseKeywords(segments)
    IN  [i \in 1..Len(kws) |-> Lower(kws[i])]

SearchTerms == {"Age", "q1"}
SearchWords == {"a", "q"}
SearchInputs == {<<"">>, <<"A ">>, <<"a", "q">>}
ScoreValues == {79, 80}
Thresholds == {0, 80}
FuzzyMethods ==
    {"Simple Ratio (fuzz.ratio)", "Token Set Ratio (fuzz.token_set_ratio)"}

\* the functions a fuzzy method can stand for on the terms and keywords of
\* the model: any function into the scores
FuzzyFunctions == [{Lower(t) : t \in SearchTerms} \X SearchWords -> ScoreValues]

\* current_fuzzy_function(str(term).lower(), keyword) >= threshold (main.py 707)
Hit(term, keyword) ==
    current_fuzzy_function[<<Lower(term), keyword>>] >= analyser_fuzzy_threshold

\* (a slip: one count for each keyword that reaches the threshold)
KeywordsCheckedAll(term, kws) == Len(kws)

\* the inner loop (main.py 706-710): how many keywords are scored against a
\* term, the one that hits being the last
KeywordsChecked(term, kws) ==
    IF \E i \in 1..Len(kws) : Hit(term, kws[i])
    THEN CHOOSE i \in 1..Len(kws) :
             /\ Hit(term, kws[i])
             /\ \A j \in 1..(i - 1) : ~Hit(term, kws[j])
    ELSE Len(kws)

\* match_count += 1 for every scored keyword that hits
TermCount(term, kws) ==
    Cardinality({i \in 1..KeywordsChecked(term, kws) : Hit(term, kws[i])})

RECURSIVE SumCounts(_, _)
SumCounts(columns, kws) ==
    IF columns = <<>> THEN 0
    ELSE TermCount(Head(columns), kws) + SumCounts(Tail(columns), kws)

\* (a slip: the append outside the test, every term of the form is listed)
MatchedColumns(columns, kws) == columns

\* matched_terms_for_display (main.py 703-709)
MatchedTerms(columns, kws) ==
    SelectSeq(columns, LAMBDA t : TermCount(t, kws) > 0)

\* the owner of the asset with the form's UID (main.py 695-700)
OwnerOf(uid, df) ==
    LET matching == SelectSeq(df.rows, LAMBDA r : r.UID = uid)
    IN  IF matching = <<>> THEN "N/A" ELSE matching[1].OwnerUsername

\* main.py 713-719; the joined text is held as the sorted terms
MatchResult(form, df, kws) ==
    [FormName |-> form.FormName,
     UID |-> form.UID,
     OwnerUsername |-> OwnerOf(form.UID, df),
     NumberOfKeywordMatches |-> SumCounts(form.Columns, kws),
     MatchedTerms |->
         Sorted({MatchedTerms(form.Columns, kws)[i] :
                    i \in 1..Len(MatchedTerms(form.Columns, kws))})]

\* (a slip: the rows appended to those of the last search)
SearchResultsAppended(forms, df, kws, before) ==
    LET hits == SelectSeq(forms, LAMBDA f : SumCounts(f.Columns, kws) > 0)
    IN  before \o [i \in 1..Len(hits) |-> MatchResult(hits[i], df, kws)]

\* results (main.py 685, 690-719): starts empty, one row per form that has
\* a match
SearchResults(forms, df, kws, before) ==
    LET hits == SelectSeq(forms, LAMBDA f : SumCounts(f.Columns, kws) > 0)
    IN  [i \in 1..Len(hits) |-> MatchResult(hits[i], df, kws)]

\* pd.DataFrame(results)
ResultsFrame(rows) == IF rows = <<>> THEN EmptyFrame ELSE DataFrame(rows)

\* the calls of the scoring function made for a form, in order
RECURSIVE FormCalls(_, _, _)
FormCalls(uid, columns, kws) ==
    IF columns = <<>> THEN <<>>
    ELSE [i \in 1..KeywordsChecked(Head(columns), kws) |->
             [UID |-> uid, term |-> Head(columns), keyword |-> kws[i]]]
         \o FormCalls(uid, Tail(columns), kws)

RECURSIVE SearchCalls(_, _)
SearchCalls(forms, kws) ==
    IF forms = <<>> THEN <<>>
    ELSE FormCalls(Head(forms).UID, Head(forms).Columns, kws)
         \o SearchCalls(Tail(forms), kws)

\* what a search reads
SearchInputsNow ==
    [forms |-> xml_form_details,
     keywords |-> analyser_keywords_input,
     method |-> analyser_fuzzy_method,
     threshold |-> analyser_fuzzy_threshold,
     assets |-> all_loaded_assets_df]

\* "Search Forms for Keywords" (main.py 670-727)
SearchClick ==
    /\ pc = "idle"
    /\ xml_forms_processed /\ xml_form_details # <<>>
    /\ Len(search_log) < MaxSearches
    /\ LET kws == SearchKeywords(analyser_keywords_input)
           outcome == IF kws = <<>> THEN "no keywords"
                      ELSE IF IsEmpty(all_loaded_assets_df) THEN "no metadata"
                      ELSE "searched"
           rows == SearchResults(xml_form_details, all_loaded_assets_df, kws,
                                 keyword_match_results.rows)
       IN  /\ keyword_match_results' =
                 IF outcome = "searched" THEN ResultsFrame(rows)
                 ELSE keyword_match_results
           /\ scored' = IF outcome = "searched"
                        THEN SearchCalls(xml_form_details, kws) ELSE <<>>
           /\ search_log' = Append(search_log,
                                   [inputs |-> SearchInputsNow,
                                    outcome |-> outcome,
                                    results |-> keyword_match_results'])
    /\ UNCHANGED <<sessionVars, tabVars, normVars, fetchVars, flags_before>>
    /\ UNCHANGED <<xml_form_details, all_xml_column_names, xml_forms_processed,
                   analyser_keywords_input, analyser_fuzzy_threshold,
                   analyser_fuzzy_method, current_fuzzy_function, detail_served>>

SearchEntries == {"e1", "e5"}

\* the column lists an analysis can store for a form: sorted, no repetition
ColumnLists == {Sorted(S) : S \in SUBSET SearchTerms}

RECURSIVE UnionOfColumns(_)
UnionOfColumns(forms) ==
    IF forms = <<>> THEN {}
    ELSE {Head(forms).Columns[i] : i \in 1..Len(Head(forms).Columns)}
         \cup UnionOfColumns(Tail(forms))

\* the session after an analysis of the filtered table (main.py 606-619),
\* the working table being the one analysed, another one or reset since
InitSearch ==
    /\ \E entries \in {e \in SeqsUpTo(SearchEntries, 1, Cardinality(SearchEntries)) :
                          IsInjective(e)} :
          /\ filtered_projects_df = AssetTable(DirectRows(entries))
          /\ \E cols \in [1..Len(entries) -> ColumnLists] :
                xml_form_details =
                    [i \in 1..Len(entries) |->
                        FormDefinition(DirectRows(entries)[i].Name,
                                       DirectRows(entries)[i].UID, cols[i])]
    /\ all_xml_column_names = Sorted(UnionOfColumns(xml_form_details))
    /\ xml_forms_processed = TRUE
    /\ keyword_match_results = EmptyFrame
    /\ all_loaded_assets_df \in {EmptyFrame, AssetTable(DirectRows(<<"e1">>))}
    /\ loaded_assets_from_views = <<>>
    /\ available_project_views = <<>>
    /\ project_views_fetched = FALSE
    /\ assets_loaded = TRUE
    /\ filters_applied = TRUE
    /\ widgets = NoWidgets
    /\ ui_error = "none"
    /\ analyser_keywords_input \in SearchInputs
    /\ analyser_fuzzy_threshold \in Thresholds
    /\ analyser_fuzzy_method \in FuzzyMethods
    /\ current_fuzzy_function \in FuzzyFunctions
    /\ detail_served = <<>>
    /\ scored = <<>>
    /\ search_log = <<>>
    /\ NormIdle
    /\ FetchIdle

NextSearch == SearchClick

SpecSearch == InitSearch /\ [][NextSearch]_vars

---------------------------------------------------------------------------
(* SpecExtract: "Analyze Forms from Filtered Projects" and the credential  *)
(* tests of the fetch buttons, from a session that holds loaded assets     *)

MaxElements == 2

\* the label of a survey element: missing, null, a list of entries or one
\* string
NoLabel == [kind |-> "absent", items |-> <<>>]
NullLabel == [kind |-> "null", items |-> <<>>]
ListLabel(items) == [kind |-> "list", items |-> items]
StrLabel(text) == [kind |-> "str", items |-> <<text>>]

\* an entry of content.survey
Element(name, label, type) ==
    [isdict |-> TRUE, name |-> name, label |-> label, type |-> type]
BadElement == [isdict |-> FALSE, name |-> Absent, label |-> NoLabel, type |-> Absent]

SurveyElements ==
    {Element("q1", ListLabel(<<"Age", Null>>), "text"),
     Element(Null, StrLabel("Age"), Absent),
     Element("", NullLabel, Null),
     BadElement}

\* what the GET of an asset's detail gives: an exception of requests.get,
\* raise_for_status or res.json(), or the decoded body
DetailFailure(error) ==
    [ok |-> FALSE, error |-> error, isdict |-> FALSE, content |-> "absent",
     survey_kind |-> "absent", survey |-> <<>>]
DetailBody(isdict, content, survey_kind, survey) ==
    [ok |-> TRUE, error |-> "none", isdict |-> isdict, content |-> content,
     survey_kind |-> survey_kind, survey |-> survey]

DetailResponses ==
    {DetailFailure("RequestException"), DetailFailure("JSONDecodeError"),
     DetailBody(FALSE, "absent", "absent", <<>>),
     DetailBody(TRUE, "absent", "absent", <<>>),
     DetailBody(TRUE, "null", "absent", <<>>),
     DetailBody(TRUE, "dict", "absent", <<>>),
     DetailBody(TRUE, "dict", "notlist", <<>>)}
    \cup {DetailBody(TRUE, "dict", "list", sv) :
             sv \in SeqsUpTo(SurveyElements, 0, MaxElements)}

\* kobo_api_functions.py 280-296: the terms one element adds
ElementTerms(el) ==
    IF ~el.isdict THEN {}
    ELSE (IF el.name \notin {Absent, Null} THEN {el.name} ELSE {})
         \cup (CASE el.label.kind = "list" ->
                       {el.label.items[i] : i \in 1..Len(el.label.items)} \ {Null}
                 [] el.label.kind = "str" -> {el.label.items[1]}
                 [] OTHER -> {})
         \cup (IF el.type \notin {Absent, Null} THEN {el.type} ELSE {})

\* column_terms after the try block (kobo_api_functions.py 264-307): a body
\* that is no object makes .get raise, which `except Exception` catches
ColumnTerms(resp) ==
    IF resp.ok /\ resp.isdict /\ resp.content = "dict" /\ resp.survey_kind = "list"
    THEN UNION {ElementTerms(resp.survey[i]) : i \in 1..Len(resp.survey)}
    ELSE {}

\* (a slip: the empty string kept among the terms)
UniqueFormColumnsUnfiltered(terms) == Sorted(terms)

\* sorted(list(filter(None, column_terms))) (kobo_api_functions.py 309)
UniqueFormColumns(terms) == Sorted({t \in terms : t # ""})

\* (a slip: the batch ended at the first asset whose request fails)
FormDetailsUntilFailure(df, resps) ==
    LET n == IF \E i \in 1..Len(resps) : ~resps[i].ok
             THEN (CHOOSE i \in 1..Len(resps) :
                      ~resps[i].ok /\ \A j \in 1..(i - 1) : resps[j].ok) - 1
             ELSE Len(resps)
    IN  [i \in 1..n |->
            FormDefinition(df.rows[i].Name, df.rows[i].UID,
                           UniqueFormColumns(ColumnTerms(resps[i])))]

\* form_details (kobo_api_functions.py 260-316): one entry per row, in order
FormDetails(df, resps) ==
    [i \in 1..Len(df.rows) |->
        FormDefinition(df.rows[i].Name, df.rows[i].UID,
                       UniqueFormColumns(ColumnTerms(resps[i])))]

\* "Analyze Forms from Filtered Projects" (main.py 599-624) with
\* fetch_and_parse_form_definitions (kobo_api_functions.py 244-321)
AnalyzeForms(responses) ==
    /\ pc = "idle"
    /\ \E creds \in BOOLEAN :
          IF IsEmpty(filtered_projects_df)
          THEN /\ ui_error' = "none"
               /\ UNCHANGED <<sessionVars, widgets, normVars, fetchVars,
                              analyserVars, searchVars, flags_before>>
          ELSE IF ~creds
          THEN MissingCredentials("credentials: analyze_forms_button")
          ELSE \E resps \in [1..Len(filtered_projects_df.rows) -> responses] :
                  LET form_data == FormDetails(filtered_projects_df, resps)
                  IN  /\ xml_form_details' = form_data
                      /\ all_xml_column_names' = Sorted(UnionOfColumns(form_data))
                      /\ xml_forms_processed' = TRUE
                      /\ keyword_match_results' = EmptyFrame
                      /\ detail_served' = resps
                      /\ requests' = [i \in 1..Len(resps) |->
                                         Url("assets", filtered_projects_df.rows[i].UID, 1)]
                      /\ ui_error' = "none"
                      /\ UNCHANGED <<sessionVars, widgets, normVars, pc, next_url,
                                     acc, total, first_count, include_surveys,
                                     selected, view_idx, view_fetched, ret, served,
                                     progress, reqLeft, recLeft, export_queue,
                                     zip_files, cache, analyser_keywords_input,
                                     analyser_fuzzy_threshold,
                                     analyser_fuzzy_method, current_fuzzy_function,
                                     scored, search_log, flags_before>>

\* the handler, the server answering with any of the sample responses
AnalyzeFormsClick == AnalyzeForms(DetailResponses)

\* One analysis per behaviour: an analysis reads the filtered table and the
\* credentials only, and overwrites what the analysis before it stored.
FirstAnalysis ==
    /\ detail_served = <<>>
    /\ AnalyzeFormsClick

ExtractEntries == {"e1", "e5"}

\* the project view the assets were loaded from
ExtractViews == ViewRows(<<"e1">>)

\* the session after "Load Assets from Selected Project View(s)" and the run
\* of the Project Browser tab that follows; the filtered table is the working
\* table or, after the status opt-out, the empty one
InitExtract ==
    /\ \E entries \in {e \in SeqsUpTo(ExtractEntries, 1, Cardinality(ExtractEntries)) :
                          IsInjective(e)} :
          LET rows == ViewAssetRowsOfPage(entries, TRUE, "v1", ExtractViews)
          IN  /\ loaded_assets_from_views = rows
              /\ all_loaded_assets_df = AssetTable(rows)
              /\ filtered_projects_df \in {AssetTable(rows), EmptyFrame}
    /\ available_project_views = ExtractViews
    /\ project_views_fetched = TRUE
    /\ assets_loaded = TRUE
    /\ filters_applied = TRUE
    /\ widgets = NoWidgets
    /\ ui_error = "none"
    /\ NormIdle
    /\ FetchIdle
    /\ AnalyserIdle
    /\ SearchIdle

NextExtract ==
    \/ FirstAnalysis
    \/ FetchViewsClick
    \/ LoadAssetsClick
    \/ FetchAllClick

SpecExtract == InitExtract /\ [][NextExtract]_vars

---------------------------------------------------------------------------
(* SpecAnalyser: the fetch handlers in a session whose forms are analysed  *)

\* the answers to the detail requests of this specification: a failure and a
\* survey of one element
AnalyserResponses ==
    {DetailFailure("RequestException"),
     DetailBody(TRUE, "dict", "list",
                <<Element("q1", ListLabel(<<"Age", Null>>), "text")>>)}

\* one analysis per behaviour
AnalysisOnce ==
    /\ detail_served = <<>>
    /\ AnalyzeForms(AnalyserResponses)

\* the session after Fetch Project Views and Load Assets from the view v1,
\* which took two requests and served one record
InitAnalyser ==
    /\ LET rows == ViewAssetRowsOfPage(<<"e1">>, TRUE, "v1", ExtractViews)
       IN  /\ loaded_assets_from_views = rows
           /\ all_loaded_assets_df = AssetTable(rows)
           /\ filtered_projects_df = AssetTable(rows)
    /\ available_project_views = ExtractViews
    /\ project_views_fetched = TRUE
    /\ assets_loaded = TRUE
    /\ filters_applied = TRUE
    /\ widgets = NoWidgets
    /\ ui_error = "none"
    /\ NormIdle
    /\ FetcherIdle
    /\ reqLeft = MaxRequests - 2
    /\ recLeft = MaxRecords - 1
    /\ AnalyserIdle
    /\ SearchIdle

NextAnalyser ==
    \/ AnalysisOnce
    \/ FetchViewsClick
    \/ ViewsPage
    \/ FetchViewsFinish
    \/ LoadAssetsClick
    \/ ViewAssetsPage
    \/ LoadAssetsFinish
    \/ FetchAllClick
    \/ AllAssetsPage
    \/ FetchAllFinish

SpecAnalyser == InitAnalyser /\ [][NextAnalyser]_vars

---------------------------------------------------------------------------
(* Claims about the fetchers (checked under Spec).  They are stated where  *)
(* a fetcher has just returned: `requests` and `served` then hold every    *)
(* GET of the call and `ret` the value handed to the caller.               *)

AtReturn ==
    /\ pc \in {"views_ret", "pv_ret", "direct_ret", "subs_ret"}
    /\ requests # <<>>

Pages == 1..Len(served)

AllOk == \A i \in Pages : served[i].ok

\* page i is the first, resp. the last, page of the chain of its collection
FirstPage(i) == i = 1 \/ ~served[i - 1].ok \/ served[i - 1].next # "next"
LastPage(i) == served[i].ok /\ served[i].next # "next"

\* the number of the chain page i belongs to
ChainIndex(i) == Cardinality({j \in 1..i : FirstPage(j)})

\* the count the first page of the chain of page i carries
RECURSIVE ChainCount(_)
ChainCount(i) == IF FirstPage(i) THEN served[i].count ELSE ChainCount(i - 1)

\* the entries of the chain of page i up to page i
RECURSIVE FetchedUpTo(_)
FetchedUpTo(i) ==
    IF FirstPage(i) THEN Len(served[i].results)
    ELSE FetchedUpTo(i - 1) + Len(served[i].results)

NonZeroCounts == \A i \in Pages : ChainCount(i) \notin {0, AbsentInt}

\* one GET per page, in chain order from the start URL of each collection
OneGetPerPage ==
    /\ \A i \in Pages :
          /\ requests[i].page = IF FirstPage(i) THEN 1 ELSE requests[i - 1].page + 1
          /\ ~FirstPage(i) => requests[i].id = requests[i - 1].id
          /\ pc = "pv_ret" => requests[i].id = selected[ChainIndex(i)]
    /\ LastPage(Len(served))
    /\ ChainIndex(Len(served)) = IF pc = "pv_ret" THEN Len(selected) ELSE 1

\* the rows the well-formed records of pages 1..n stand for, in page order
RECURSIVE ExpectedRows(_)
ExpectedRows(n) ==
    IF n = 0 THEN <<>>
    ELSE ExpectedRows(n - 1) \o
         (CASE pc = "views_ret" -> ViewRows(served[n].results)
            [] pc = "direct_ret" -> DirectRowsOfPage(served[n].results, include_surveys)
            [] pc = "pv_ret" ->
                 ViewAssetRowsOfPage(served[n].results, include_surveys,
                                     requests[n].id, available_project_views)
            [] OTHER -> SubmissionFrame(SelectSeq(served[n].results, IsDict)).rows)

ExpectedReturn ==
    IF pc = "subs_ret" THEN FrameValue(ExpectedRows(Len(served)))
    ELSE ListValue(ExpectedRows(Len(served)))

\* the rows of the returned value that come from the collection of page i
NoRowOfCollection(i) ==
    IF pc = "pv_ret"
    THEN \A k \in 1..Len(ret.rows) : ret.rows[k].SourceViewUID # requests[i].id
    ELSE ret.rows = <<>>

\* C1: every collection fetcher, given a chain of pages with a non-zero
\* count and no failing request, issues one GET per page in chain order,
\* stops after the first page without a next link and returns the
\* well-formed records of all pages in page order.
C1_PagedAccumulation ==
    (AtReturn /\ AllOk /\ NonZeroCounts) =>
        /\ OneGetPerPage
        /\ ret = ExpectedReturn

\* C2: when the request for a page of a collection fails, the fetch of that
\* collection is aborted and none of the records accumulated from its
\* earlier pages is returned; the per-view asset fetcher included.
C2_FailClosed ==
    AtReturn =>
        \A i \in Pages :
            ~served[i].ok =>
                /\ \A j \in Pages : j > i => requests[j].id # requests[i].id
                /\ NoRowOfCollection(i)

\* C3: a first page with count zero makes the fetcher return nothing for
\* the collection and request no further page of it, whatever its next
\* link; a first page without a count is not treated as a zero count (its
\* next link is followed).
C3_ZeroCountShortCircuit ==
    (AtReturn /\ ret.kind # "raised") =>
        \A i \in Pages :
            (FirstPage(i) /\ served[i].ok) =>
                /\ served[i].count = 0 =>
                      /\ i < Len(served) => requests[i + 1].id # requests[i].id
                      /\ NoRowOfCollection(i)
                /\ (served[i].count = AbsentInt /\ served[i].next = "next") =>
                      /\ i < Len(served)
                      /\ requests[i + 1].id = requests[i].id

\* a collection of non-empty pages whose count is the number of its records
CountIsTotal ==
    /\ pc \in {"views_ret", "pv_ret", "direct_ret"}
    /\ requests # <<>>
    /\ AllOk
    /\ \A i \in Pages :
          /\ served[i].results # <<>>
          /\ ChainCount(i) >= 1
          /\ LastPage(i) => ChainCount(i) = FetchedUpTo(i)

\* exactly count records returned, one progress report per page, items
\* fetched strictly increasing and equal to the total after the last page
ProgressToTotal ==
    /\ ret.kind = "list"
    /\ Len(progress) = Len(served)
    /\ \A i \in Pages :
          /\ progress[i].coll = requests[i].id
          /\ progress[i].total = ChainCount(i)
          /\ ~FirstPage(i) => progress[i].fetched > progress[i - 1].fetched
          /\ LastPage(i) =>
                /\ progress[i].fetched = progress[i].total
                /\ IF pc = "pv_ret"
                   THEN Cardinality({k \in 1..Len(ret.rows) :
                                        ret.rows[k].SourceViewUID = requests[i].id})
                        = ChainCount(i)
                   ELSE Len(ret.rows) = ChainCount(i)

\* every entry is a well-formed record: an object whose normalisation does
\* not raise
IsRecord(e) == IsDict(e) /\ ~NormalizeRaises(SampleAsset(e))

OnlyRecords ==
    \A i \in Pages : \A k \in 1..Len(served[i].results) :
        IF pc = "views_ret" THEN IsDict(served[i].results[k])
        ELSE IsRecord(served[i].results[k])

\* no entry is dropped by the surveys-only flag of the asset fetchers
OnlyKeptRecords ==
    \A i \in Pages : KeptAssets(served[i].results, pc # "views_ret" /\ include_surveys)
                        = served[i].results

\* C4 (as stated): for non-empty pages of well-formed records and a count
\* equal to their number, the asset and project-view fetchers return exactly
\* count records and report strictly increasing progress that ends at the
\* total.
C4_ProgressToTotal == (CountIsTotal /\ OnlyRecords) => ProgressToTotal

\* C4 (amended): the same, for pages none of whose records the surveys-only
\* flag drops.
C4_ProgressToTotalOfKeptRecords ==
    (CountIsTotal /\ OnlyRecords /\ OnlyKeptRecords) => ProgressToTotal

\* two non-empty pages of kept records were fetched
C4_Witness ==
    /\ CountIsTotal
    /\ OnlyRecords
    /\ OnlyKeptRecords
    /\ Len(served) >= 2
    /\ ~FirstPage(2)
    /\ pc \in {"pv_ret", "direct_ret"}

HasMalformed ==
    \E i \in Pages : \E k \in 1..Len(served[i].results) : ~IsDict(served[i].results[k])

NoRecordRaises ==
    pc \in {"pv_ret", "direct_ret"} =>
        \A i \in Pages : ~PageRaises(served[i].results, include_surveys)

\* C5: in every paginated fetch an entry that is no well-formed object is
\* skipped: it gives no row, the fetch is not aborted, and the later entries
\* and pages are still processed.
C5_MalformedSkipped ==
    (AtReturn /\ AllOk /\ NonZeroCounts /\ HasMalformed /\ NoRecordRaises) =>
        /\ OneGetPerPage
        /\ ret = ExpectedReturn

---------------------------------------------------------------------------
(* Claims about the session (checked under Spec) *)

UIDs(rows) == {rows[i].UID : i \in 1..Len(rows)}

\* C8: the working asset table holds at most one row per uid, and exactly
\* one for every uid of the fetched rows.
C8_UniqueUID ==
    /\ \A i, j \in 1..Len(all_loaded_assets_df.rows) :
          all_loaded_assets_df.rows[i].UID = all_loaded_assets_df.rows[j].UID => i = j
    /\ assets_loaded => UIDs(all_loaded_assets_df.rows) = UIDs(loaded_assets_from_views)

\* rows of two project views that share a uid were loaded
C8_Witness ==
    /\ assets_loaded
    /\ \E i, j \in 1..Len(loaded_assets_from_views) :
          /\ loaded_assets_from_views[i].UID = loaded_assets_from_views[j].UID
          /\ loaded_assets_from_views[i].SourceViewUID # loaded_assets_from_views[j].SourceViewUID

---------------------------------------------------------------------------
(* Claims about the normalisation (checked under SpecNorm) *)

\* the status the documentation derives from a raw record
DocumentedStatus(asset) ==
    IF asset.deployment_status = "deployed" THEN "Deployed"
    ELSE IF asset.is_archived \in {"True", "1"} THEN "Archived"
    ELSE "Draft"

\* C6: every record that is normalised gets the status Deployed when
\* deployment_status is "deployed" (whatever is_archived is), else Archived
\* when is_archived is truthy, else Draft; and the all-assets fetcher and the
\* per-view fetcher give the same record the same status.
C6_StatusDerivation ==
    normDone =>
        /\ normDirect.raised = normView.raised
        /\ ~normDirect.raised =>
              /\ normDirect.row[1].Status = DocumentedStatus(raw)
              /\ normView.row[1].Status = DocumentedStatus(raw)

\* C6 witness: a deployed and archived record has been normalised by both
\* fetchers and is Deployed
C6_Witness ==
    /\ normDone
    /\ raw.deployment_status = "deployed"
    /\ raw.is_archived = "True"
    /\ ~normDirect.raised /\ ~normView.raised
    /\ normDirect.row[1].Status = "Deployed"
    /\ normView.row[1].Status = "Deployed"

\* a record whose present fields have the shape the API documents: settings
\* an object, settings.country a list of objects
WellTyped(asset) ==
    /\ asset.settings.kind \in {"absent", "obj"}
    /\ asset.settings.country_kind \in {"absent", "list"}
    /\ \A i \in 1..Len(asset.settings.country) : asset.settings.country[i].isdict

DefaultsOf(asset, row) ==
    /\ asset.deployment__submission_count = AbsentInt => row.SubmissionCount = 0
    /\ asset.is_deployed = Absent => row.IsDeployed = "False"
    /\ asset.is_archived = Absent => row.IsArchived = "False"
    /\ (asset.settings.kind = "absent" \/ asset.settings.country_kind = "absent")
          => (row.CountryLabel = "" /\ row.CountryCode = "")
    /\ asset.name = Absent => row.Name = Null
    /\ asset.owner__username = Absent => row.OwnerUsername = Null

\* C7: a well-formed record with any subset of its optional fields missing is
\* normalised without an error, and every missing field gets its documented
\* default: submission count 0, the two flags false, country label and code
\* the empty string, name and owner null.
C7_MissingFieldsDefault ==
    (normDone /\ WellTyped(raw)) =>
        /\ ~normDirect.raised
        /\ ~normView.raised
        /\ DefaultsOf(raw, normDirect.row[1])
        /\ DefaultsOf(raw, normView.row[1])

\* C7 witness: a record with every optional field missing has been normalised
C7_Witness ==
    /\ normDone
    /\ raw.settings.kind = "absent"
    /\ raw.name = Absent /\ raw.owner__username = Absent
    /\ raw.deployment__submission_count = AbsentInt
    /\ raw.is_deployed = Absent /\ raw.is_archived = Absent
    /\ raw.deployment_status = Absent
    /\ ~normDirect.raised
    /\ normDirect.row[1].SubmissionCount = 0

---------------------------------------------------------------------------
(* Claims about the filter (checked under SpecFilter) *)

\* the tab has run and got as far as storing the filtered table
FilterRan == ui_error \in {"none", "KeyError"}

WidgetsAreDefault == \E today \in Days : widgets = DefaultWidgets(all_loaded_assets_df, today)

HasNoNull(r) == ~IsNaT(r.DateCreated) /\ r.SubmissionCount # NoneInt

\* C9 as stated: the default criteria return the working table unchanged, the
\* rows with a null creation date or a null submission count included.
C9_DefaultPassThrough ==
    (FilterRan /\ WidgetsAreDefault) =>
        filtered_projects_df = all_loaded_assets_df

\* C9 amended: under the default criteria the filtered table holds, in the
\* order of the working table, exactly the rows whose creation date and
\* submission count are both non-null; a table without such nulls comes back
\* unchanged.
C9_DefaultKeepsNonNullRows ==
    (FilterRan /\ WidgetsAreDefault) =>
        /\ filtered_projects_df.hascols
        /\ filtered_projects_df.rows = SelectSeq(all_loaded_assets_df.rows, HasNoNull)
        /\ (\A r \in RowSet(all_loaded_assets_df) : HasNoNull(r))
              => filtered_projects_df = all_loaded_assets_df

\* C9 witness: the default criteria applied to a table of a dated row and an
\* undated one kept the dated row only
C9_Witness ==
    /\ FilterRan /\ WidgetsAreDefault
    /\ Len(all_loaded_assets_df.rows) = 2
    /\ \E r \in RowSet(all_loaded_assets_df) : IsNaT(r.DateCreated)
    /\ Len(filtered_projects_df.rows) = 1
    /\ HasNoNull(filtered_projects_df.rows[1])

\* C10: with no status selected the filtered table is empty, whatever the
\* table and the other criteria; with no country selected the result is the
\* one obtained with every country selected (no restriction).
C10_StatusOptOutCountryPassThrough ==
    FilterRan =>
        /\ widgets.statuses = {} => IsEmpty(filtered_projects_df)
        /\ widgets.countries = {} =>
              filtered_projects_df =
                  ApplyFilters(all_loaded_assets_df,
                               [widgets EXCEPT !.countries = CountryOptions(all_loaded_assets_df)])

\* C10 witness: no status and no country selected, nothing else restricting,
\* over a table that has rows: the result is empty
C10_Witness ==
    /\ FilterRan
    /\ widgets.statuses = {} /\ widgets.countries = {}
    /\ widgets.min_submission_count = 0 /\ widgets.sectors = {}
    /\ widgets.date_start = 1 /\ widgets.date_end = MaxDay
    /\ \E r \in RowSet(all_loaded_assets_df) : HasNoNull(r)
    /\ IsEmpty(filtered_projects_df)

\* the predicates of the tab, each as a condition on one row under the
\* criteria w (main.py 318-348, 392-403)
PassesDate(r, w) ==
    /\ r.DateCreated.day # NoneInt
    /\ w.date_start <= r.DateCreated.day
    /\ r.DateCreated.day <= w.date_end

PassesName(r, w) ==
    LET words == ParseKeywords(w.name_keywords_input)
    IN  words # <<>> =>
            /\ r.Name # Null
            /\ \E i \in 1..Len(words) : ContainsWord(r.Name, words[i])

PassesCountry(r, w) == w.countries # {} => r.CountryLabel \in w.countries

PassesStatus(r, w) == r.Status \in w.statuses

PassesSector(r, w) ==
    w.sectors # {} => get_sector_display_name(r.Sector) \in w.sectors

PassesMinSubmissions(r, w) ==
    /\ r.SubmissionCount # NoneInt
    /\ r.SubmissionCount >= w.min_submission_count

PassesAll(r) ==
    /\ PassesDate(r, widgets)
    /\ PassesName(r, widgets)
    /\ PassesCountry(r, widgets)
    /\ PassesStatus(r, widgets)
    /\ PassesSector(r, widgets)
    /\ PassesMinSubmissions(r, widgets)

\* C11: the filtered table holds exactly the rows of the working table that
\* satisfy the date range, name keyword, country, status, sector and minimum
\* submissions predicates all at once, in the order of the working table; an
\* empty keyword, country or sector criterion restricts nothing, an empty
\* status selection leaves no row.
C11_ConjunctionInOrder ==
    FilterRan =>
        filtered_projects_df.rows = SelectSeq(all_loaded_assets_df.rows, PassesAll)

\* C11 witness: of two rows that both pass the active name keyword, the
\* status selection removed the first and the second was kept
C11_Witness ==
    /\ FilterRan
    /\ Len(all_loaded_assets_df.rows) = 2
    /\ ParseKeywords(widgets.name_keywords_input) # <<>>
    /\ widgets.countries = {} /\ widgets.sectors = {}
    /\ \A r \in RowSet(all_loaded_assets_df) : PassesName(r, widgets)
    /\ ~PassesStatus(all_loaded_assets_df.rows[1], widgets)
    /\ filtered_projects_df.rows = <<all_loaded_assets_df.rows[2]>>

\* dateFrom <= d <= dateTo for the date portion d of a non-null creation date
InDateRange(r) ==
    /\ r.DateCreated # NaT
    /\ r.DateCreated.day \in widgets.date_start..widgets.date_end

\* C12: the date-range filter keeps a row iff its creation date is non-null
\* and its date portion lies between dateFrom and dateTo, both inclusive; no
\* row with a null creation date is in the filtered table.
C12_DateRangeInclusive ==
    FilterRan =>
        /\ FilterStages(all_loaded_assets_df, widgets)[2].rows
              = SelectSeq(all_loaded_assets_df.rows, InDateRange)
        /\ \A r \in RowSet(filtered_projects_df) : InDateRange(r)
        /\ \A r \in RowSet(all_loaded_assets_df) :
              (InDateRange(r) /\ PassesName(r, widgets) /\ PassesCountry(r, widgets)
                  /\ PassesStatus(r, widgets) /\ PassesSector(r, widgets)
                  /\ PassesMinSubmissions(r, widgets))
                => r \in RowSet(filtered_projects_df)

\* C12 witness: a one-day range kept a row created late on that day and
\* excluded a row without a creation date
C12_Witness ==
    /\ FilterRan
    /\ widgets.date_start = widgets.date_end
    /\ \E r \in RowSet(filtered_projects_df) :
          r.DateCreated.day = widgets.date_end /\ r.DateCreated.tod > 0
    /\ \E r \in RowSet(all_loaded_assets_df) :
          r.DateCreated = NaT /\ r \notin RowSet(filtered_projects_df)

\* the column each stage of the filtering reads: stage i turns frame i-1 of
\* FilterStages into frame i
StageColumn ==
    <<"", "Date Created", "Name", "Country Label", "Status",
      "Operational Purpose", "Collects PII", "Description", "Sector",
      "Submission Count">>

\* C13: a predicate whose backing column is absent from the frame it is
\* applied to raises nothing and leaves the frame as it was; so do the
\* predicates applied after an empty status selection replaced the frame by
\* an empty one without columns.
C13_AbsentColumnNoOp ==
    /\ ui_error # "PredicateKeyError"
    /\ FilterRan =>
          LET f == FilterStages(all_loaded_assets_df, widgets)
          IN  /\ ~PredicateRaises(all_loaded_assets_df, widgets)
              /\ \A i \in 2..10 :
                    ~HasColumn(f[i - 1], StageColumn[i]) => f[i] = f[i - 1]
              /\ widgets.statuses = {} =>
                    \A i \in 6..10 : f[i] = EmptyFrame

\* C13 witness: description keywords were entered for a table that has no
\* Description column, and both rows of the table were kept
C13_Witness ==
    /\ FilterRan
    /\ ParseKeywords(widgets.description_keywords_input) # <<>>
    /\ ~HasColumn(all_loaded_assets_df, "Description")
    /\ Len(all_loaded_assets_df.rows) = 2
    /\ filtered_projects_df = all_loaded_assets_df

\* the same after the status opt-out: a sector was selected and the filtered
\* table is the empty one that replaced the frame
C13_OptOutReached ==
    /\ FilterRan
    /\ widgets.statuses = {} /\ widgets.sectors # {}
    /\ ~IsEmpty(all_loaded_assets_df)
    /\ filtered_projects_df = EmptyFrame

---------------------------------------------------------------------------
(* Claims about the keyword search (checked under SpecSearch) *)

\* the last click of the search button went through the forms
Searched ==
    /\ search_log # <<>>
    /\ search_log[Len(search_log)].outcome = "searched"

ColumnSet(form) == {form.Columns[i] : i \in 1..Len(form.Columns)}

\* the terms of a form against which some keyword reaches the threshold
Counted(form) ==
    {t \in ColumnSet(form) :
        \E k \in ColumnSet([Columns |-> SearchKeywords(analyser_keywords_input)]) :
            current_fuzzy_function[<<Lower(t), k>>] >= analyser_fuzzy_threshold}

\* C14: whatever the scoring function, the search counts a term of a form
\* once if some keyword scores at least the threshold against it and not at
\* all otherwise, scores no further keyword against a term after the first
\* hit, and reports exactly the forms whose count is positive, in order.
C14_OneCountPerTerm ==
    Searched =>
        LET matching == SelectSeq(xml_form_details, LAMBDA f : Counted(f) # {})
            rows == keyword_match_results.rows
        IN  /\ Len(rows) = Len(matching)
            /\ \A i \in 1..Len(matching) :
                  /\ rows[i].UID = matching[i].UID
                  /\ rows[i].NumberOfKeywordMatches = Cardinality(Counted(matching[i]))
                  /\ rows[i].NumberOfKeywordMatches > 0
                  /\ ColumnSet([Columns |-> rows[i].MatchedTerms]) = Counted(matching[i])
            /\ \A n \in 1..Len(scored) : \A m \in 1..(n - 1) :
                  (scored[m].UID = scored[n].UID /\ scored[m].term = scored[n].term)
                    => current_fuzzy_function[<<Lower(scored[m].term), scored[m].keyword>>]
                          < analyser_fuzzy_threshold

\* C14 witness: two keywords both reach the threshold against a term of one
\* form, which is reported with that term counted once; the other form has
\* terms but no hit and is not reported
C14_Witness ==
    /\ Searched
    /\ Len(SearchKeywords(analyser_keywords_input)) = 2
    /\ Len(xml_form_details) = 2
    /\ \A i \in 1..2 : xml_form_details[i].Columns # <<>>
    /\ Len(keyword_match_results.rows) = 1
    /\ keyword_match_results.rows[1].NumberOfKeywordMatches = 1
    /\ \E t \in ColumnSet([Columns |-> keyword_match_results.rows[1].MatchedTerms]) :
          \A k \in SearchWords :
              current_fuzzy_function[<<Lower(t), k>>] >= analyser_fuzzy_threshold

\* C15: two searches run on the same form definitions, keywords, method,
\* threshold and working table store the same result rows in the same
\* order, and a search leaves what it reads as it found it.
C15_SearchDeterministic ==
    /\ \A i, j \in 1..Len(search_log) :
          search_log[i].inputs = search_log[j].inputs
            => search_log[i].results = search_log[j].results
    /\ search_log # <<>> => search_log[Len(search_log)].inputs = SearchInputsNow

\* C15 witness: the search ran twice on the same inputs and reported a form
\* both times
C15_Witness ==
    /\ Len(search_log) = 2
    /\ \A i \in 1..2 : search_log[i].outcome = "searched"
    /\ search_log[1].inputs = search_log[2].inputs
    /\ ~IsEmpty(search_log[2].results)

---------------------------------------------------------------------------
(* Claims about the handlers and the session (checked under Spec) *)

\* a fetch handler ends after a request of its fetcher failed
FailedFetchEnds ==
    /\ pc \in {"views_ret", "pv_ret", "direct_ret"}
    /\ pc' = "idle"
    /\ \E i \in 1..Len(served) : ~served[i].ok

\* C20 as stated: when a fetch handler ends after a failed request, the
\* session is as the handler found it; here for the flags of the session
\* (project views fetched, assets loaded, filters applied).
C20_FailureKeepsSession ==
    [][FailedFetchEnds => SessionFlags' = flags_before]_vars

\* the submission fetch has run and returned (a memoized value is returned
\* without a request and is the outcome of the fetch that stored it)
SubmissionsFetched == pc = "subs_ret" /\ requests # <<>>

\* a request of the fetch failed or its body could not be decoded
FetchFailed == \E i \in Pages : ~served[i].ok

\* every request was answered and no page holds a submission
NoSubmissions == AllOk /\ \A i \in Pages : served[i].results = <<>>

\* every request was answered and the fetcher accumulated records, all of
\* them objects
RecordsFetched ==
    /\ AllOk
    /\ acc # <<>>
    /\ \A i \in 1..Len(acc) : IsDict(acc[i])

\* C18: the submission fetch returns a non-empty table when records were
\* fetched, the empty table when the collection holds no submission and None
\* when a request or a decode fails; a failure never gives the empty table
\* and an empty collection never gives None.
C18_ThreeOutcomes ==
    SubmissionsFetched =>
        /\ ret.kind \in {"frame", "none"}
        /\ FetchFailed => ret.kind = "none"
        /\ NoSubmissions => (ret.kind = "frame" /\ ret.rows = <<>>)
        /\ RecordsFetched => (ret = SubmissionFrame(acc) /\ ret.rows # <<>>)
        /\ (ret.kind = "frame" /\ ret.rows = <<>>) => (AllOk /\ acc = <<>>)
        /\ ret.kind = "none" =>
              (FetchFailed \/ \E i \in 1..Len(acc) : ~IsDict(acc[i]))

\* C18 witness: the second request of a fetch failed after a first page of
\* records, and the fetch returned None
C18_Witness ==
    /\ SubmissionsFetched
    /\ Len(served) = 2
    /\ served[1].ok /\ served[1].results # <<>>
    /\ ~served[2].ok
    /\ ret.kind = "none"

\* a collection whose pages hold no submission although its count is not
\* zero gave the empty table
C18_NoDataReached ==
    /\ SubmissionsFetched
    /\ NoSubmissions
    /\ served[1].count > 0
    /\ ret.kind = "frame" /\ ret.rows = <<>>

\* a page of records with a count gave the table of its rows
C18_TableReached ==
    /\ SubmissionsFetched
    /\ RecordsFetched
    /\ served[1].count > 0
    /\ ret.kind = "frame" /\ Len(ret.rows) = Len(acc)

---------------------------------------------------------------------------
(* Claims about the schema extraction and the credential tests (checked    *)
(* under SpecExtract)                                                      *)

\* an analysis has run and no handler has touched the session since
Analysed == pc = "idle" /\ detail_served # <<>>

\* C16: an analysis of a table of n assets stores n form definitions, one
\* per asset in the order of the table and after one request per asset,
\* whichever requests fail; an asset whose request fails or whose body cannot
\* be decoded gets no column, an asset after it gets the columns of its own
\* response, and the global terms are the union of the columns.
C16_OneDefinitionPerAsset ==
    Analysed =>
        LET rows == filtered_projects_df.rows
        IN  /\ Len(xml_form_details) = Len(rows)
            /\ Len(requests) = Len(rows)
            /\ \A i \in 1..Len(rows) :
                  /\ xml_form_details[i].UID = rows[i].UID
                  /\ xml_form_details[i].FormName = rows[i].Name
                  /\ requests[i].id = rows[i].UID
                  /\ ~detail_served[i].ok => xml_form_details[i].Columns = <<>>
                  /\ \A j \in 1..Len(rows) :
                        detail_served[j] = detail_served[i]
                          => xml_form_details[j].Columns = xml_form_details[i].Columns
            /\ ColumnSet([Columns |-> all_xml_column_names])
                  = UNION {ColumnSet(xml_form_details[i]) : i \in 1..Len(rows)}

\* C16 witness: the request of the first of two assets failed and the second
\* asset got its columns
C16_Witness ==
    /\ Analysed
    /\ Len(xml_form_details) = 2
    /\ ~detail_served[1].ok
    /\ xml_form_details[1].Columns = <<>>
    /\ xml_form_details[2].Columns # <<>>

\* the survey elements of a response that are objects
WellFormed(resp) ==
    {resp.survey[i] : i \in {j \in 1..Len(resp.survey) : resp.survey[j].isdict}}

LabelEntries(el) ==
    IF el.label.kind \in {"list", "str"}
    THEN {el.label.items[i] : i \in 1..Len(el.label.items)}
    ELSE {}

\* the terms C17 names: the name if present and non-null, every entry of the
\* label list or the single label, the type if present
StatedTerms(resp) ==
    IF resp.content = "dict" /\ resp.survey_kind = "list"
    THEN UNION {{el.name} \ {Absent, Null} : el \in WellFormed(resp)}
         \cup UNION {LabelEntries(el) : el \in WellFormed(resp)}
         \cup UNION {{el.type} \ {Absent} : el \in WellFormed(resp)}
    ELSE {}

\* C17 as stated: for an asset whose request succeeded the columns are the
\* stated terms, null label entries, a null type and empty strings included.
C17_ColumnsAreStatedTerms ==
    Analysed =>
        \A i \in 1..Len(detail_served) :
            (detail_served[i].ok /\ detail_served[i].isdict)
              => ColumnSet(xml_form_details[i]) = StatedTerms(detail_served[i])

\* C17 amended: for an asset whose request succeeded the columns are, sorted
\* and without repetition, the non-empty strings among: the name of each
\* well-formed element if present and non-null, the non-null entries of its
\* label list or its single string label, and its type if present and
\* non-null; without content or with a survey that is no list there is no
\* column, and no script run ends with an exception (the only errors shown
\* are those of the credential tests).
C17_ColumnsAreNonEmptyTerms ==
    Analysed =>
        /\ ui_error \in {"none"} \cup CredentialErrors
        /\ \A i \in 1..Len(detail_served) :
              (detail_served[i].ok /\ detail_served[i].isdict)
                => /\ ColumnSet(xml_form_details[i])
                         = StatedTerms(detail_served[i]) \ {Null, ""}
                   /\ xml_form_details[i].Columns = Sorted(ColumnSet(xml_form_details[i]))
                   /\ (detail_served[i].content # "dict"
                         \/ detail_served[i].survey_kind # "list")
                        => xml_form_details[i].Columns = <<>>

\* C17 witness: a survey of an element with a name, a label list holding a
\* null entry and a type, and of an element with an empty name and a null
\* type, gave the three terms of the first
C17_Witness ==
    /\ Analysed
    /\ detail_served[1].ok
    /\ detail_served[1].survey =
          <<Element("q1", ListLabel(<<"Age", Null>>), "text"),
            Element("", NullLabel, Null)>>
    /\ xml_form_details[1].Columns = <<"Age", "q1", "text">>

\* C19: a click of Fetch Project Views, Load Assets, Fetch All Assets or
\* Analyze Forms with an empty token or server URL sends no request and
\* leaves the session state (project views, loaded assets, working and
\* filtered table, flags, analyser state) as it was.
C19_NoCredentialsNoEffect ==
    [][ui_error' \in CredentialErrors =>
          UNCHANGED <<sessionVars, analyserVars, requests, served, detail_served>>]_vars

\* C19 witness: Fetch All Assets was refused for its credentials in a
\* session that holds loaded assets and analysed forms
C19_Witness ==
    /\ ui_error = "credentials: fetch_all_assets_button"
    /\ pc = "idle"
    /\ ~IsEmpty(all_loaded_assets_df)
    /\ xml_forms_processed /\ xml_form_details # <<>>
    /\ Len(requests) = Len(xml_form_details)

\* the same refusal by Analyze Forms, before any analysis
C19_AnalyzeRefused ==
    /\ ui_error = "credentials: analyze_forms_button"
    /\ ~IsEmpty(filtered_projects_df)
    /\ ~xml_forms_processed
    /\ requests = <<>>

---------------------------------------------------------------------------
(* Claims about empty collections, the memo and the session tables        *)
(* (checked under Spec)                                                    *)

\* what the sidebar shows when Fetch Project Views ends (main.py 106-111)
ViewsStatus(views) == IF views # <<>> THEN "success" ELSE "warning"

\* what the sidebar shows when a load handler ends (main.py 158-169, 202-214)
AssetsStatus(fetched) == IF fetched # <<>> THEN "success" ELSE "error"

\* the views or the all-assets fetcher has returned to its handler
CollectionFetched ==
    /\ pc \in {"views_ret", "direct_ret"}
    /\ requests # <<>>
    /\ ret.kind = "list"

\* the collection is empty: its only page carries the count zero
EmptyCollection ==
    /\ Len(served) = 1
    /\ served[1].ok
    /\ served[1].count = 0

\* the value a fetcher returns for an empty collection (return [],
\* kobo_api_functions.py 42, 186)
NothingFound == ListValue(<<>>)

\* C21 as stated: the value returned after a failed request differs from the
\* value returned for an empty collection, and the handler does not report
\* an empty collection as a failure.
C21_EmptyDistinctFromFailure ==
    CollectionFetched =>
        /\ FetchFailed => ret # NothingFound
        /\ EmptyCollection =>
              /\ ret = NothingFound
              /\ pc = "views_ret" => ViewsStatus(ret.rows) # "error"
              /\ pc = "direct_ret" => AssetsStatus(ret.rows) # "error"

\* the export loop calls the submission fetch for the asset at the head of
\* its queue (the clean-up of the name before the call raises on a name that
\* is None)
FetchCalled ==
    /\ pc = "export"
    /\ export_queue # <<>>
    /\ Head(export_queue).name # Null
    /\ pc' # "export"

\* the call is answered from the memo: no request, the stored value
ServedFromMemo(uid) ==
    /\ pc' = "subs_ret"
    /\ ret' = cache[uid]
    /\ requests' = requests
    /\ served' = served
    /\ reqLeft' = reqLeft

\* a step of Clear App Cache
CacheCleared == pc = "idle" /\ pc' = "idle" /\ cache' = NoCache

\* C22: a call of the submission fetch for a uid that was fetched before
\* sends no request and returns the value of the first call; a stored value
\* stays as it is through every step that is not Clear App Cache.
C22_MemoizedUntilCleared ==
    [][/\ (FetchCalled /\ Head(export_queue).uid \in DOMAIN cache)
            => ServedFromMemo(Head(export_queue).uid)
       /\ \A u \in DOMAIN cache :
            \/ (u \in DOMAIN cache' /\ cache'[u] = cache[u])
            \/ CacheCleared]_vars

\* C22 witness: a table was served from the memo, without a request
C22_Witness ==
    /\ pc = "subs_ret"
    /\ requests = <<>>
    /\ Head(export_queue).uid \in DOMAIN cache
    /\ ret = cache[Head(export_queue).uid]
    /\ ret.kind = "frame" /\ ret.rows # <<>>

\* C30: a failure value is memoized like any other: once the fetch for a uid
\* ended in None, a later call for it sends no request and returns None, and
\* the entry stays until Clear App Cache.
C30_FailureMemoized ==
    [][/\ (pc = "subs_ret" /\ ret.kind = "none" /\ pc' = "export")
            => (Head(export_queue).uid \in DOMAIN cache'
                  /\ cache'[Head(export_queue).uid].kind = "none")
       /\ \A u \in DOMAIN cache :
            cache[u].kind = "none" =>
               /\ (FetchCalled /\ Head(export_queue).uid = u)
                     => (ServedFromMemo(u) /\ ret'.kind = "none")
               /\ \/ (u \in DOMAIN cache' /\ cache'[u].kind = "none")
                  \/ CacheCleared]_vars

\* C30 witness: the export was started again after a failed fetch and the
\* failure value came from the memo, without a request
C30_Witness ==
    /\ pc = "subs_ret"
    /\ requests = <<>>
    /\ Head(export_queue).uid \in DOMAIN cache
    /\ cache[Head(export_queue).uid].kind = "none"
    /\ ret.kind = "none"

\* a load handler (Load Assets from Views, Fetch All Assets) is running
LoadRunning == pc \in {"pv", "pv_ret", "direct", "direct_ret"}

\* a load handler ends with a non-empty list from its fetcher
LoadSucceeds ==
    /\ pc \in {"pv_ret", "direct_ret"}
    /\ pc' = "idle"
    /\ ret.kind = "list"
    /\ ret.rows # <<>>

\* the value of the UID column for the records served during the running
\* fetch
ServedUIDs ==
    UNION {{Get(SampleAsset(served[i].results[k]).uid, Null) :
               k \in {j \in 1..Len(served[i].results) : IsDict(served[i].results[j])}} :
           i \in Pages}

IsCoercedRowOf(row, rows) == \E k \in 1..Len(rows) : row = CoerceRow(rows[k])

\* C23: a load handler clears the loaded list, the working table and the
\* filtered table before it fetches, and when it succeeds the loaded list is
\* the list its fetcher returned and the tables hold rows of that list only,
\* one for every uid of it, all of records served during this action.
C23_ReplacedWholesale ==
    [][/\ LoadRunning' =>
            (loaded_assets_from_views' = <<>>
               /\ IsEmpty(all_loaded_assets_df') /\ IsEmpty(filtered_projects_df'))
       /\ LoadSucceeds =>
            /\ loaded_assets_from_views' = ret.rows
            /\ UIDs(ret.rows) \subseteq ServedUIDs
            /\ UIDs(all_loaded_assets_df'.rows) = UIDs(ret.rows)
            /\ \A i \in 1..Len(all_loaded_assets_df'.rows) :
                  IsCoercedRowOf(all_loaded_assets_df'.rows[i], ret.rows)
            /\ \A i \in 1..Len(filtered_projects_df'.rows) :
                  IsCoercedRowOf(filtered_projects_df'.rows[i], ret.rows)]_vars

\* C23 witness: a load succeeded in a session that held the assets of an
\* earlier load
C23_Witness ==
    /\ pc = "idle"
    /\ assets_loaded
    /\ Len(flags_before) = 3
    /\ flags_before[2]
    /\ ~IsEmpty(all_loaded_assets_df)

\* the position of the first row of rows that holds uid
FirstIndex(rows, uid) ==
    CHOOSE k \in 1..Len(rows) :
        /\ rows[k].UID = uid
        /\ \A j \in 1..(k - 1) : rows[j].UID # uid

\* C25: the working table holds, for every uid of the fetched rows, the
\* first row of that uid in fetch order, and its rows are in fetch order; the
\* fetched rows are in the order of the selected views, then of the pages,
\* then of the entries of a page.
C25_FirstOccurrenceKept ==
    /\ assets_loaded =>
          LET fetched == loaded_assets_from_views
              kept == all_loaded_assets_df.rows
          IN  /\ UIDs(kept) = UIDs(fetched)
              /\ \A i \in 1..Len(kept) :
                    kept[i] = CoerceRow(fetched[FirstIndex(fetched, kept[i].UID)])
              /\ \A i, j \in 1..Len(kept) :
                    i < j => FirstIndex(fetched, kept[i].UID)
                               < FirstIndex(fetched, kept[j].UID)
    /\ (AtReturn /\ pc \in {"pv_ret", "direct_ret"} /\ AllOk /\ NonZeroCounts
          /\ ret.kind = "list")
         => ret.rows = ExpectedRows(Len(served))

\* C25 witness: the same asset was fetched from two project views and the
\* working table holds the row of the view selected first
C25_Witness ==
    /\ assets_loaded
    /\ Len(loaded_assets_from_views) = 2
    /\ loaded_assets_from_views[1].UID = loaded_assets_from_views[2].UID
    /\ loaded_assets_from_views[1] # loaded_assets_from_views[2]
    /\ Len(all_loaded_assets_df.rows) = 1
    /\ all_loaded_assets_df.rows[1] = CoerceRow(loaded_assets_from_views[1])

\* C26: assets_loaded is set only while the loaded list and the working
\* table hold rows, project_views_fetched only while the list of project
\* views holds views.
C26_FlagsImplyData ==
    /\ assets_loaded =>
          (loaded_assets_from_views # <<>> /\ ~IsEmpty(all_loaded_assets_df))
    /\ project_views_fetched => available_project_views # <<>>

\* views were fetched and assets loaded from them, and a later Fetch
\* Project Views that found nothing has cleared both flags
C26_FlagsCleared ==
    /\ pc = "idle"
    /\ Len(flags_before) = 3
    /\ flags_before[1] /\ flags_before[2]
    /\ ~project_views_fetched /\ ~assets_loaded
    /\ available_project_views = <<>>
    /\ loaded_assets_from_views = <<>>

\* C26 witness: both flags are set in a session that holds views and assets
C26_Witness ==
    /\ pc = "idle"
    /\ project_views_fetched /\ assets_loaded
    /\ available_project_views # <<>>
    /\ ~IsEmpty(all_loaded_assets_df)

---------------------------------------------------------------------------
(* Claims about the analyser state (checked under SpecAnalyser)            *)

\* the form definitions, the global terms, the processed flag and the last
\* keyword-match results
AnalyserState ==
    <<xml_form_details, all_xml_column_names, xml_forms_processed,
      keyword_match_results>>

\* a step of a fetch handler: its click (refused for its credentials or
\* not), a page of its fetcher, its end
FetchHandlerStep ==
    \/ pc # "idle"
    \/ pc' # "idle"
    \/ ui_error' \in CredentialErrors \ {"credentials: analyze_forms_button"}

C27_FailedFetchReached ==
    /\ pc = "idle"
    /\ xml_forms_processed
    /\ xml_form_details # <<>>
    /\ Len(flags_before) = 3
    /\ ~project_views_fetched /\ ~assets_loaded
    /\ IsEmpty(filtered_projects_df)

---------------------------------------------------------------------------
(* Claims about the summary of an analysis (checked under SpecExtract)     *)

\* what Analyze Forms shows when the batch is over (main.py 621-624): a
\* success with the number of form definitions and of unique terms, or a
\* warning when there is no form definition
AnalysisSummary(form_data, unique_terms) ==
    IF form_data # <<>>
    THEN [kind |-> "success", forms |-> Len(form_data), terms |-> Len(unique_terms)]
    ELSE [kind |-> "warning", forms |-> 0, terms |-> 0]

\* the assets of the last analysis whose detail request was answered
FetchedForms == {i \in 1..Len(detail_served) : detail_served[i].ok}

---------------------------------------------------------------------------
(* Claims about the columns of the filtered table (checked under           *)
(* SpecFilter)                                                             *)

\* the Project Browser tab has run its filters and stored their result
FiltersStored == ui_error \in {"none", "KeyError"}

\* C28 as stated: the filtered table has the columns of the working table,
\* after the status opt-out too, so the statistics find Submission Count.
C28_FiltersKeepColumns ==
    FiltersStored =>
        /\ filtered_projects_df.hascols = all_loaded_assets_df.hascols
        /\ ui_error # "KeyError"

---------------------------------------------------------------------------
(* Claims about the rows of a keyword search (checked under SpecSearch) *)

\* the place of a term in the order of sorted()
TermRank(t) == CHOOSE i \in 1..Len(TermOrder) : TermOrder[i] = t

\* the terms listed in a row of the results
ListedTerms(row) == {row.MatchedTerms[j] : j \in 1..Len(row.MatchedTerms)}

\* C29: every row a keyword search stores has as its number of matches the
\* number of distinct terms it lists, the column list of every analysed
\* form being free of repetition; the listed terms are in ascending order
\* and none is listed twice.
C29_CountIsDistinctTerms ==
    /\ \A i \in 1..Len(xml_form_details) : IsInjective(xml_form_details[i].Columns)
    /\ Searched =>
          \A i \in 1..Len(keyword_match_results.rows) :
              LET row == keyword_match_results.rows[i]
              IN  /\ row.NumberOfKeywordMatches = Cardinality(ListedTerms(row))
                  /\ \A j, k \in 1..Len(row.MatchedTerms) :
                        j < k => TermRank(row.MatchedTerms[j])
                                   < TermRank(row.MatchedTerms[k])

\* C29 witness: a search has stored a row that lists two terms and counts
\* two matches
C29_Witness ==
    /\ Searched
    /\ \E i \in 1..Len(keyword_match_results.rows) :
          /\ Len(keyword_match_results.rows[i].MatchedTerms) = 2
          /\ keyword_match_results.rows[i].NumberOfKeywordMatches = 2

\* a search has stored a row for a form of two terms of which one matched
C29_PartialMatchReached ==
    /\ Searched
    /\ \E i \in 1..Len(keyword_match_results.rows) :
          \E n \in 1..Len(xml_form_details) :
              /\ xml_form_details[n].UID = keyword_match_results.rows[i].UID
              /\ Len(xml_form_details[n].Columns) = 2
              /\ keyword_match_results.rows[i].NumberOfKeywordMatches = 1
              /\ Len(keyword_match_results.rows[i].MatchedTerms) = 1

====
